---------------------------- MODULE Spec2Model ----------------------------
(***************************************************************************)
(* AI quiz generator: the Wikipedia fact-check pipeline, the Wikipedia     *)
(* context assembler, the enhanced quiz generation with its fallback, the  *)
(* local score store and the quiz page state.                              *)
(*                                                                         *)
(* Strings are sequences of one-character strings, so that toLowerCase,    *)
(* split, trim and includes are computed character by character.           *)
(* An optional value is a sequence of length 0 (absent) or 1 (present).    *)
(***************************************************************************)
EXTENDS Integers, Sequences, FiniteSets, TLC

VARIABLES
    calls,      \* WikipediaService: the calls of its methods, by call slot
    pure,       \* WikipediaService: one application of a pure method
    gen,        \* EnhancedQuizService: the generateEnhancedQuiz call
    gather,     \* EnhancedQuizService: the gatherWikipediaContext call in progress
    built,      \* EnhancedQuizService: one application of createEnhancedPrompt
    available,  \* ScoreService: localStorage can be used by the page
    storage,    \* ScoreService: the localStorage item 'quiz_scores'
    last,       \* ScoreService: the last call and what it returned
    recorded,   \* ScoreService: the scores passed to calculateAverageScore, per quiz
    writesOk,   \* ScoreService: no localStorage write has failed so far
    sinceClear, \* ScoreService: the calculateAverageScore calls since the last clearAllScores
    history,    \* QuizHistoryPage: the component state
    page,       \* QuizGeneratorPage: the component state
    pending     \* QuizGeneratorPage: the requests in flight

wikiVars == <<calls, pure>>
quizVars == <<gen, gather, built>>
scoreVars == <<available, storage, last, recorded, writesOk, sinceClear, history>>
pageVars == <<page, pending>>
notWiki == <<quizVars, scoreVars, pageVars>>
notQuiz == <<wikiVars, scoreVars, pageVars>>
notScore == <<wikiVars, quizVars, pageVars>>
notPage == <<wikiVars, quizVars, scoreVars>>
vars == <<calls, pure, gen, gather, built, available, storage, last, recorded, writesOk, sinceClear,
          history,
          page, pending>>

None == <<>>
Some(x) == <<x>>

\* ------------------------------------------------------------------------
\* JavaScript string primitives
\* ------------------------------------------------------------------------

UpperChars == <<"A", "B", "C", "D", "E", "F", "G", "H", "I", "J", "K", "L", "M", "N", "O", "P", "Q", "R", "S", "T", "U", "V", "W", "X", "Y", "Z">>
LowerChars == <<"a", "b", "c", "d", "e", "f", "g", "h", "i", "j", "k", "l", "m", "n", "o", "p", "q", "r", "s", "t", "u", "v", "w", "x", "y", "z">>
DigitChars == <<"0", "1", "2", "3", "4", "5", "6", "7", "8", "9">>

Range(s) == {s[i] : i \in DOMAIN s}

\* the class \w of the regular expressions
WordChars == Range(UpperChars) \cup Range(LowerChars) \cup Range(DigitChars) \cup {"_"}

\* the class \s of the regular expressions
SpaceChars == {" ", "\n", "\t"}

toLowerChar(c) ==
    IF c \in Range(UpperChars)
    THEN LowerChars[CHOOSE i \in DOMAIN UpperChars : UpperChars[i] = c]
    ELSE c

toLowerCase(s) == [i \in DOMAIN s |-> toLowerChar(s[i])]

\* s.includes(t)
includes(s, t) ==
    \E i \in 0..(Len(s) - Len(t)) : SubSeq(s, i + 1, i + Len(t)) = t

\* s.split(re) for a regular expression seps+ over the character class seps
RECURSIVE splitFrom(_, _, _, _, _)
splitFrom(s, seps, i, cur, acc) ==
    IF i > Len(s) THEN Append(acc, cur)
    ELSE IF s[i] \in seps
         THEN IF i > 1 /\ s[i - 1] \in seps
              THEN splitFrom(s, seps, i + 1, cur, acc)
              ELSE splitFrom(s, seps, i + 1, <<>>, Append(acc, cur))
         ELSE splitFrom(s, seps, i + 1, Append(cur, s[i]), acc)

split(s, seps) == splitFrom(s, seps, 1, <<>>, <<>>)

\* s.split(".")
RECURSIVE splitCharFrom(_, _, _, _, _)
splitCharFrom(s, ch, i, cur, acc) ==
    IF i > Len(s) THEN Append(acc, cur)
    ELSE IF s[i] = ch
         THEN splitCharFrom(s, ch, i + 1, <<>>, Append(acc, cur))
         ELSE splitCharFrom(s, ch, i + 1, Append(cur, s[i]), acc)

splitChar(s, ch) == splitCharFrom(s, ch, 1, <<>>, <<>>)

\* s.trim()
RECURSIVE trimStart(_)
trimStart(s) == IF s # <<>> /\ Head(s) \in SpaceChars THEN trimStart(Tail(s)) ELSE s

RECURSIVE trimEnd(_)
trimEnd(s) ==
    IF s # <<>> /\ s[Len(s)] \in SpaceChars THEN trimEnd(SubSeq(s, 1, Len(s) - 1)) ELSE s

trim(s) == trimEnd(trimStart(s))

\* s.replace(/[^\w\s]/g, ' ')
replaceNonWord(s) ==
    [i \in DOMAIN s |-> IF s[i] \in WordChars \cup SpaceChars THEN s[i] ELSE " "]

\* s.replace(/\s+/g, ch)
RECURSIVE collapseFrom(_, _, _, _)
collapseFrom(s, ch, i, acc) ==
    IF i > Len(s) THEN acc
    ELSE IF s[i] \in SpaceChars
         THEN IF i > 1 /\ s[i - 1] \in SpaceChars
              THEN collapseFrom(s, ch, i + 1, acc)
              ELSE collapseFrom(s, ch, i + 1, Append(acc, ch))
         ELSE collapseFrom(s, ch, i + 1, Append(acc, s[i]))

collapseSpaces(s, ch) == collapseFrom(s, ch, 1, <<>>)

\* a.slice(0, n)
sliceTo(a, n) == SubSeq(a, 1, IF Len(a) < n THEN Len(a) ELSE n)

\* a.slice(-n)
sliceLast(a, n) == SubSeq(a, IF Len(a) > n THEN Len(a) - n + 1 ELSE 1, Len(a))

\* [...new Set(a)]: first occurrences, in order
RECURSIVE uniqueFrom(_, _, _)
uniqueFrom(a, i, acc) ==
    IF i > Len(a) THEN acc
    ELSE uniqueFrom(a, i + 1, IF a[i] \in Range(acc) THEN acc ELSE Append(acc, a[i]))

unique(a) == uniqueFrom(a, 1, <<>>)

\* a.join(sep)
RECURSIVE join(_, _)
join(a, sep) ==
    IF a = <<>> THEN <<>>
    ELSE IF Len(a) = 1 THEN a[1]
    ELSE a[1] \o sep \o join(Tail(a), sep)

\* number of elements of a that satisfy Test
count(a, Test(_)) == Len(SelectSeq(a, Test))

\* ------------------------------------------------------------------------
\* WikipediaService: term extraction and relevance scoring
\* ------------------------------------------------------------------------

stopWords == {
    <<"t", "h", "e">>, <<"a">>, <<"a", "n">>, <<"a", "n", "d">>, <<"o", "r">>, <<"b", "u", "t">>, <<"i", "n">>, <<"o", "n">>, <<"a", "t">>, <<"t", "o">>, <<"f", "o", "r">>,
    <<"o", "f">>, <<"w", "i", "t", "h">>, <<"b", "y">>, <<"i", "s">>, <<"a", "r", "e">>, <<"w", "a", "s">>, <<"w", "e", "r", "e">>, <<"b", "e">>, <<"b", "e", "e", "n">>, <<"b", "e", "i", "n", "g">>,
    <<"h", "a", "v", "e">>, <<"h", "a", "s">>, <<"h", "a", "d">>, <<"d", "o">>, <<"d", "o", "e", "s">>, <<"d", "i", "d">>, <<"w", "i", "l", "l">>, <<"w", "o", "u", "l", "d">>, <<"c", "o", "u", "l", "d">>,
    <<"s", "h", "o", "u", "l", "d">>, <<"m", "a", "y">>, <<"m", "i", "g", "h", "t">>, <<"m", "u", "s", "t">>, <<"c", "a", "n">>, <<"t", "h", "i", "s">>, <<"t", "h", "a", "t">>, <<"t", "h", "e", "s", "e">>, <<"t", "h", "o", "s", "e">> }

MinTermLen == 2
MaxKeyTerms == 3

\* topic ? `${topic} ${content}` : content   (topic is optional; '' is falsy)
fullText(content, topic) ==
    IF topic # None /\ topic[1] # <<>> THEN topic[1] \o <<" ">> \o content ELSE content

\* the words of the text that are kept as candidate terms
termWordsKeepingStopWords(content, topic) ==
    LET isTerm(w) == Len(w) >= MinTermLen
    IN  SelectSeq(split(replaceNonWord(toLowerCase(fullText(content, topic))), SpaceChars),
                  isTerm)

termWords(content, topic) ==
    LET isTerm(w) == Len(w) >= MinTermLen /\ w \notin stopWords
    IN  SelectSeq(split(replaceNonWord(toLowerCase(fullText(content, topic))), SpaceChars),
                  isTerm)

MaxCalls == 3
Slots == 1..MaxCalls

\* the candidate terms of the factCheck calls started in slots 1..c
RECURSIVE earlierWords(_)
earlierWords(c) ==
    IF c = 0 THEN <<>>
    ELSE earlierWords(c - 1) \o
         (IF calls[c].op = "factCheck"
          THEN termWords(calls[c].content, calls[c].topic) ELSE <<>>)

\* the word counts kept in a field of the service and never reset
wordCountEntriesShared(words) ==
    LET all == earlierWords(MaxCalls) \o words
        keys == unique(all)
    IN  [i \in DOMAIN keys |->
            [word |-> keys[i], n |-> Cardinality({j \in DOMAIN all : all[j] = keys[i]})]]

\* Array.from(wordCount.entries()): one [word, count] per word, in insertion order
wordCountEntries(words) ==
    LET keys == unique(words)
    IN  [i \in DOMAIN keys |->
            [word |-> keys[i], n |-> Cardinality({j \in DOMAIN words : words[j] = keys[i]})]]

\* the entry a stable sort by decreasing count puts first: the first of those
\* with the largest count
lastBest(entries) ==
    CHOOSE i \in DOMAIN entries :
        /\ \A j \in DOMAIN entries : entries[j].n <= entries[i].n
        /\ \A j \in (i + 1)..Len(entries) : entries[j].n < entries[i].n

firstBest(entries) ==
    CHOOSE i \in DOMAIN entries :
        /\ \A j \in DOMAIN entries : entries[j].n <= entries[i].n
        /\ \A j \in 1..(i - 1) : entries[j].n < entries[i].n

\* entries.sort((a, b) => b[1] - a[1]): stable, by decreasing count
RECURSIVE sortByCountDesc(_)
sortByCountDesc(entries) ==
    IF entries = <<>> THEN <<>>
    ELSE LET best == firstBest(entries)
             rest == [j \in 1..(Len(entries) - 1) |->
                        IF j < best THEN entries[j] ELSE entries[j + 1]]
         IN  <<entries[best]>> \o sortByCountDesc(rest)

extractKeyTerms(content, topic) ==
    LET sorted == sliceTo(sortByCountDesc(wordCountEntries(termWords(content, topic))),
                          MaxKeyTerms)
    IN  [i \in DOMAIN sorted |-> sorted[i].word]

\* Scores are exact fractions num/den; the weights are in tenths.
TermWeight == 3
TitleWeight == 4
OverlapWeight == 3
ScoreDen == 10
MinOverlapLen == 3

Max(a, b) == IF a >= b THEN a ELSE b
Min(a, b) == IF a <= b THEN a ELSE b

Frac(n, d) == [num |-> n, den |-> d]
FracEq(x, y) == x.num * y.den = y.num * x.den
FracLt(x, y) == x.num * y.den < y.num * x.den
FracLe(x, y) == x.num * y.den <= y.num * x.den

\* Math.min(score, 1)
capScoreUncapped(num, den) == Frac(num, den)
capScore(num, den) == Frac(Min(num, den), den)

\* `undefined` converted to a string by + and by template literals
undefinedText == <<"u", "n", "d", "e", "f", "i", "n", "e", "d">>

\* An article is [title, extract, sections]: title is optional (data.title may be
\* missing), sections is optional.  The result is [threw, score]: the title test
\* dereferences article.title and throws a TypeError when the title is missing.
calculateRelevanceScore(content, article, keyTerms) ==
    LET contentLower == toLowerCase(content)
        titleText == IF article.title = None THEN undefinedText ELSE article.title[1]
        articleText == toLowerCase(titleText \o <<" ">> \o article.extract)
        inText(term) == includes(articleText, toLowerCase(term))
        matches == count(keyTerms, inText)
        titleThrows == keyTerms # <<>> /\ article.title = None
        titleHit == \E i \in DOMAIN keyTerms :
                        includes(toLowerCase(titleText), toLowerCase(keyTerms[i]))
        long(w) == Len(w) > MinOverlapLen
        contentWords == SelectSeq(split(contentLower, SpaceChars), long)
        articleWords == SelectSeq(split(articleText, SpaceChars), long)
        common(w) == w \in Range(articleWords)
        commonWords == SelectSeq(contentWords, common)
        den == Max(Len(contentWords), 1)
        num == TermWeight * matches * den
               + (IF titleHit THEN TitleWeight * den ELSE 0)
               + OverlapWeight * Len(commonWords)
    IN  IF titleThrows
        THEN [threw |-> TRUE, score |-> Frac(0, 1)]
        ELSE [threw |-> FALSE, score |-> capScore(num, ScoreDen * den)]

\* the confidence level of a score
confidenceOfInclusive(score) ==
    IF FracLe(Frac(7, 10), score) THEN "high"
    ELSE IF FracLe(Frac(4, 10), score) THEN "medium"
    ELSE "low"

confidenceOf(score) ==
    IF FracLt(Frac(7, 10), score) THEN "high"
    ELSE IF FracLt(Frac(4, 10), score) THEN "medium"
    ELSE "low"

\* query.replace(/[^\w\s]/g, ' ').replace(/\s+/g, ' ').trim().substring(0, 100)
MaxQueryLen == 100
cleanQuery(query) == sliceTo(trim(collapseSpaces(replaceNonWord(query), " ")), MaxQueryLen)

\* ------------------------------------------------------------------------
\* WikipediaService: the requests and what the service makes of a response
\* ------------------------------------------------------------------------

\* A response is [kind, ...]: "neterr" (fetch rejects), "notok" (response.ok is
\* false), "badjson" (response.json() rejects), "null" (the body is JSON null)
\* or "ok" with the decoded body.
Failure(kind) == [kind |-> kind, hasList |-> FALSE, items |-> <<>>]
SearchBody(hasList, items) == [kind |-> "ok", hasList |-> hasList, items |-> items]

Item(title, pageid) == [title |-> title, pageid |-> pageid]

Sections(kind, items) == [kind |-> kind, items |-> items]
NoSections == Sections("absent", <<>>)
Article(title, extract, sections) ==
    [title |-> title, extract |-> extract, sections |-> sections]
NoArticle == Article(None, <<>>, NoSections)
ArticleFailure(kind) == [kind |-> kind, data |-> NoArticle, hasExtract |-> FALSE]
ArticleBody(title, hasExtract, extract, sections) ==
    [kind |-> "ok", data |-> Article(title, extract, sections), hasExtract |-> hasExtract]

Thrown(val) == [threw |-> TRUE, val |-> val]
Returned(val) == [threw |-> FALSE, val |-> val]

Rejected(val) == [rejected |-> TRUE, val |-> val]
Resolved(val) == [rejected |-> FALSE, val |-> val]

\* the try block of searchArticles; version 1 asks the backend proxy and reads
\* data.results, versions 2 and 3 ask Wikipedia and map data.query.search
searchArticlesTry(ver, resp) ==
    IF resp.kind # "ok" THEN Thrown(<<>>)
    ELSE IF ~resp.hasList THEN Returned(<<>>)
    ELSE IF ver = 1 THEN Returned(resp.items)
    ELSE IF \E i \in DOMAIN resp.items : resp.items[i].title = None
         THEN Thrown(<<>>)
         ELSE Returned(resp.items)

searchArticlesNoCatch(ver, resp) ==
    LET t == searchArticlesTry(ver, resp)
    IN  IF t.threw THEN Rejected(<<>>) ELSE Resolved(t.val)

searchArticles(ver, resp) ==
    LET t == searchArticlesTry(ver, resp)
    IN  IF t.threw THEN Resolved(<<>>) ELSE Resolved(t.val)

\* what searchArticles puts in the request for a query
searchRequest(ver, query, limit) ==
    [kind |-> "search", arg |-> IF ver = 1 THEN query ELSE cleanQuery(query),
     limit |-> limit]

\* the try block of getArticle
getArticleTry(ver, resp) ==
    IF resp.kind = "notok" THEN Returned(None)
    ELSE IF resp.kind # "ok" THEN Thrown(None)
    ELSE LET d == resp.data
             extract == IF resp.hasExtract THEN d.extract ELSE <<>>
         IN  IF d.sections.kind = "bad"
             THEN IF ver = 1
                  THEN Returned(Some(Article(d.title, extract, d.sections)))
                  ELSE Thrown(None)
             ELSE Returned(Some(Article(d.title, extract,
                                        Sections("list", d.sections.items))))

getArticle(ver, resp) ==
    LET t == getArticleTry(ver, resp)
    IN  IF t.threw THEN Resolved(None) ELSE Resolved(t.val)

\* what getArticle puts in the request for a title (an optional string)
articleRequest(ver, title) ==
    LET text == IF title = None THEN undefinedText ELSE title[1]
    IN  [kind |-> "article",
         arg |-> IF ver = 1 THEN text ELSE collapseSpaces(text, "_"),
         limit |-> 0]

\* ------------------------------------------------------------------------
\* WikipediaService.factCheck
\* ------------------------------------------------------------------------

FactCheckResult(query, found, article, searchResults, confidence, relevanceScore) ==
    [query |-> query, found |-> found, article |-> article,
     searchResults |-> searchResults, confidence |-> confidence,
     relevanceScore |-> relevanceScore]

\* the result when nothing was found, and the result of the catch block
fallbackResult(content) ==
    FactCheckResult(content, FALSE, None, None, "low", Frac(0, 1))

\* the result when the article of the best match could not be fetched
notFetchedResultZero(content, searchResults) ==
    FactCheckResult(content, FALSE, None, Some(searchResults), "low", Frac(0, 1))

notFetchedResult(content, searchResults) ==
    FactCheckResult(content, FALSE, None, Some(searchResults), "low", Frac(3, 10))

\* the result for a fetched article
foundResultIfRelevant(content, article, searchResults, score) ==
    FactCheckResult(content, FracLt(Frac(0, 1), score), Some(article),
                    Some(searchResults), confidenceOf(score), score)

foundResult(content, article, searchResults, score) ==
    FactCheckResult(content, TRUE, Some(article), Some(searchResults),
                    confidenceOf(score), score)

SearchLimit == 3

\* const primaryTerm = keyTerms[0]; this.searchArticles(primaryTerm, 3)
factCheckSearchLastTerm(ver, keyTerms) ==
    searchRequest(ver, keyTerms[Len(keyTerms)], SearchLimit)

factCheckSearch(ver, keyTerms) == searchRequest(ver, keyTerms[1], SearchLimit)

\* const bestMatch = searchResults[0]; this.getArticle(bestMatch.title)
factCheckFetch(ver, searchResults) == articleRequest(ver, searchResults[1].title)

\* the backend's answer to /wikipedia/fact-check, as version 1 reads it
BackendFailure(kind) == [kind |-> kind, data |-> fallbackResult(<<>>)]
BackendBody(data) == [kind |-> "ok", data |-> data]

factCheckBackendTry(content, resp) ==
    IF resp.kind # "ok" THEN Thrown(fallbackResult(content))
    ELSE Returned([resp.data EXCEPT
                     !.searchResults = Some(IF @ = None THEN <<>> ELSE @[1])])

\* ------------------------------------------------------------------------
\* State
\* ------------------------------------------------------------------------

Stages == <<"extract", "search", "article", "score">>

\* A call: the method, the service version, where it waits, its arguments and
\* locals, the requests it issued, the stages it went through, the responses it
\* received, and how its promise settled.
IdleCall ==
    [op |-> "none", ver |-> 0, pc |-> "idle", content |-> <<>>, topic |-> None,
     keyTerms |-> <<>>, searchResults |-> <<>>, reqs |-> <<>>, stages |-> <<>>,
     sResp |-> None, aResp |-> None, bResp |-> None, score |-> None, settled |-> "pending",
     fc |-> None, list |-> <<>>, art |-> None]

IdlePure ==
    [fn |-> "none", content |-> <<>>, topic |-> None, article |-> NoArticle,
     keyTerms |-> <<>>, done |-> FALSE, terms |-> <<>>, score |-> Frac(0, 1)]

resolveFc(call, result) ==
    [call EXCEPT !.pc = "done", !.settled = "resolved", !.fc = Some(result)]

\* the catch block of factCheck
factCheckCatchRethrow(call) == [call EXCEPT !.pc = "done", !.settled = "rejected"]

factCheckCatch(call) == resolveFc(call, fallbackResult(call.content))

\* factCheck, version 1: one request to the backend.  Versions 2 and 3: extract
\* the key terms and, if there is one, search for the first.
FactCheckStart(c, ver, content, topic) ==
    /\ UNCHANGED notWiki
    /\ pure.fn = "none"
    /\ calls[c].pc = "idle"
    /\ LET call == [IdleCall EXCEPT !.op = "factCheck", !.ver = ver,
                                    !.content = content, !.topic = topic]
           keyTerms == extractKeyTerms(content, topic)
       IN  calls' = [calls EXCEPT ![c] =
             IF ver = 1
             THEN [call EXCEPT !.pc = "backend",
                               !.reqs = <<[kind |-> "factcheck", arg |-> content,
                                           limit |-> 0]>>]
             ELSE IF keyTerms = <<>>
             THEN resolveFc([call EXCEPT !.stages = <<"extract">>],
                            fallbackResult(content))
             ELSE [call EXCEPT !.pc = "search", !.keyTerms = keyTerms,
                               !.stages = <<"extract", "search">>,
                               !.reqs = <<factCheckSearch(ver, keyTerms)>>]]
    /\ UNCHANGED pure

\* a direct call of searchArticles
SearchArticlesStart(c, ver, query, limit) ==
    /\ UNCHANGED notWiki
    /\ pure.fn = "none"
    /\ calls[c].pc = "idle"
    /\ calls' = [calls EXCEPT ![c] =
          [IdleCall EXCEPT !.op = "searchArticles", !.ver = ver, !.pc = "search",
                           !.content = query,
                           !.reqs = <<searchRequest(ver, query, limit)>>]]
    /\ UNCHANGED pure

\* a direct call of getArticle
GetArticleStart(c, ver, title) ==
    /\ UNCHANGED notWiki
    /\ pure.fn = "none"
    /\ calls[c].pc = "idle"
    /\ calls' = [calls EXCEPT ![c] =
          [IdleCall EXCEPT !.op = "getArticle", !.ver = ver, !.pc = "article",
                           !.content = title,
                           !.reqs = <<articleRequest(ver, Some(title))>>]]
    /\ UNCHANGED pure

\* the search request of call c completes with resp
SearchResponse(c, resp) ==
    /\ UNCHANGED notWiki
    /\ calls[c].pc = "search"
    /\ LET call == [calls[c] EXCEPT !.sResp = Some(resp)]
           r == searchArticles(call.ver, resp)
       IN  calls' = [calls EXCEPT ![c] =
             IF call.op = "searchArticles"
             THEN [call EXCEPT !.pc = "done", !.list = r.val,
                     !.settled = IF r.rejected THEN "rejected" ELSE "resolved"]
             ELSE IF r.rejected THEN factCheckCatch(call)
             ELSE IF r.val = <<>> THEN resolveFc(call, fallbackResult(call.content))
             ELSE [call EXCEPT !.pc = "article", !.searchResults = r.val,
                               !.stages = Append(@, "article"),
                               !.reqs = Append(@, factCheckFetch(call.ver, r.val))]]
    /\ UNCHANGED pure

\* the article request of call c completes with resp
ArticleResponse(c, resp) ==
    /\ UNCHANGED notWiki
    /\ calls[c].pc = "article"
    /\ LET call == [calls[c] EXCEPT !.aResp = Some(resp)]
           a == getArticle(call.ver, resp)
           s == calculateRelevanceScore(call.content, a.val[1], call.keyTerms)
           scored == [call EXCEPT !.stages = Append(@, "score")]
       IN  calls' = [calls EXCEPT ![c] =
             IF call.op = "getArticle"
             THEN [call EXCEPT !.pc = "done", !.art = a.val,
                     !.settled = IF a.rejected THEN "rejected" ELSE "resolved"]
             ELSE IF a.rejected THEN factCheckCatch(call)
             ELSE IF a.val = None
             THEN resolveFc(call, notFetchedResult(call.content, call.searchResults))
             ELSE IF s.threw THEN factCheckCatch(scored)
             ELSE resolveFc([scored EXCEPT !.score = Some(s.score), !.art = a.val],
                            foundResult(call.content, a.val[1], call.searchResults,
                                        s.score))]
    /\ UNCHANGED pure

\* the backend request of a version 1 factCheck completes with resp
BackendResponse(c, resp) ==
    /\ UNCHANGED notWiki
    /\ calls[c].pc = "backend"
    /\ LET call == [calls[c] EXCEPT !.bResp = Some(resp)]
           t == factCheckBackendTry(call.content, resp)
       IN  calls' = [calls EXCEPT ![c] =
             IF t.threw THEN factCheckCatch(call) ELSE resolveFc(call, t.val)]
    /\ UNCHANGED pure

\* calculateRelevanceScore applied to the drawn arguments
ApplyRelevanceScore ==
    /\ UNCHANGED notWiki
    /\ pure.fn = "calculateRelevanceScore"
    /\ ~pure.done
    /\ pure' = [pure EXCEPT !.done = TRUE,
                  !.score = calculateRelevanceScore(pure.content, pure.article,
                                                    pure.keyTerms).score]
    /\ UNCHANGED calls

\* extractKeyTerms applied to the drawn arguments
ApplyExtractKeyTerms ==
    /\ UNCHANGED notWiki
    /\ pure.fn = "extractKeyTerms"
    /\ ~pure.done
    /\ pure' = [pure EXCEPT !.done = TRUE,
                  !.terms = extractKeyTerms(pure.content, pure.topic)]
    /\ UNCHANGED calls

\* ------------------------------------------------------------------------
\* The arguments and responses the fact-check pipeline is exercised with
\* ------------------------------------------------------------------------

Contents == { <<>>, <<"t", "h", "e">>, <<"C", "a", "t", "s", " ", "p", "u", "r", "r", " ", "l", "o", "u", "d", "l", "y">>, <<"D", "o", " ", "c", "a", "t", "s", " ", "p", "u", "r", "r", "?">>, <<"B", "i", "r", "d", "s", " ", "s", "i", "n", "g">> }
Topics == { None, Some(<<>>), Some(<<"C", "a", "t", "s">>) }

TermLists == { <<>>, <<<<"c", "a", "t", "s">>>>, <<<<"C", "a", "t", "s">>>>, <<<<"b", "i", "r", "d", "s">>, <<"s", "i", "n", "g">>>>,
               <<<<"c", "a", "t", "s">>, <<"p", "u", "r", "r">>, <<"l", "o", "u", "d", "l", "y">>>>,
               <<<<"c", "a", "t", "s">>, <<"p", "u", "r", "r">>, <<"l", "o", "u", "d", "l", "y">>, <<"n", "i", "g", "h", "t">>>> }

catsArticle == Article(Some(<<"C", "a", "t", "s">>), <<"C", "a", "t", "s", " ", "p", "u", "r", "r", " ", "l", "o", "u", "d", "l", "y", " ", "a", "t", " ", "n", "i", "g", "h", "t">>,
                       Sections("list", <<<<"B", "e", "h", "a", "v", "i", "o", "r">>, <<"D", "i", "e", "t">>>>))
felinesArticle == Article(Some(<<"F", "e", "l", "i", "n", "e", "s">>), <<"c", "a", "t", "s", " ", "a", "n", "d", " ", "d", "o", "g", "s">>, NoSections)
titleOnlyArticle == Article(Some(<<"D", "o", "g", "s">>), <<>>, NoSections)

PureArticles ==
    { catsArticle, felinesArticle, titleOnlyArticle,
      Article(Some(<<>>), <<>>, NoSections) }

catsItem == Item(Some(<<"C", "a", "t", "s">>), 1)
felinesItem == Item(Some(<<"F", "e", "l", "i", "n", "e", "s">>), 2)

SearchResponses ==
    { Failure("neterr"), Failure("notok"), Failure("badjson"), Failure("null"),
      SearchBody(FALSE, <<>>), SearchBody(TRUE, <<>>),
      SearchBody(TRUE, <<catsItem>>),
      SearchBody(TRUE, <<felinesItem, catsItem>>),
      SearchBody(TRUE, <<catsItem, Item(None, 3)>>) }

ArticleResponses ==
    { ArticleFailure("neterr"), ArticleFailure("notok"), ArticleFailure("badjson"),
      ArticleFailure("null"),
      ArticleBody(catsArticle.title, TRUE, catsArticle.extract, catsArticle.sections),
      ArticleBody(felinesArticle.title, TRUE, felinesArticle.extract, NoSections),
      ArticleBody(titleOnlyArticle.title, FALSE, <<>>, NoSections),
      ArticleBody(None, TRUE, <<"C", "a", "t", "s", " ", "p", "u", "r", "r">>, NoSections),
      ArticleBody(catsArticle.title, TRUE, catsArticle.extract, Sections("bad", <<>>)) }

BackendResponses ==
    { BackendFailure("neterr"), BackendFailure("notok"), BackendFailure("badjson"),
      BackendFailure("null"),
      BackendBody(FactCheckResult(<<"c", "a", "t", "s">>, TRUE, Some(catsArticle), None, "high",
                                  Frac(9, 10))),
      BackendBody(FactCheckResult(<<"c", "a", "t", "s">>, FALSE, None, Some(<<catsItem>>), "low",
                                  Frac(3, 10))) }

Versions == {1, 2}
Queries == { <<"c", "a", "t", "s">>, <<"C", "+", "+", " ", " ", "(", "l", "a", "n", "g", "u", "a", "g", "e", ")">> }
Limits == {3, 5}

PureInputs ==
    { [IdlePure EXCEPT !.fn = "calculateRelevanceScore", !.content = c,
                       !.article = a, !.keyTerms = k] :
          c \in Contents, a \in PureArticles, k \in TermLists }
    \cup
    { [IdlePure EXCEPT !.fn = "extractKeyTerms", !.content = c, !.topic = t] :
          c \in Contents, t \in Topics }

\* the smaller sets used when several calls run at once
ConcContents == { <<"C", "a", "t", "s", " ", "p", "u", "r", "r">>, <<"d", "o", "g", "s", " ", "d", "o", "g", "s">> }
ConcSearchResponses == { Failure("neterr"), SearchBody(TRUE, <<felinesItem>>) }
ConcArticleResponses ==
    { ArticleFailure("notok"),
      ArticleBody(felinesArticle.title, TRUE, felinesArticle.extract, NoSections) }

\* the texts extractKeyTerms is applied to: up to MaxWords of these pieces,
\* separated by spaces, with these topics
MaxWords == 4
TermPieces == { <<"T", "h", "e">>, <<"C", "a", "t", "s">>, <<"c", "a", "t", "s", ",">>, <<"p", "u", "r", "r">>, <<"x">>, <<"d", "o", "g", "s">> }
TermContents ==
    { join(ws, <<" ">>) : ws \in UNION { [1..n -> TermPieces] : n \in 0..MaxWords } }
TermTopics == { None, Some(<<>>), Some(<<"D", "o", "g", "s", " ", "a", "n", "d", " ", "b", "i", "r", "d", "s">>) }
TermInputs ==
    { [IdlePure EXCEPT !.fn = "extractKeyTerms", !.content = c, !.topic = t] :
          c \in TermContents, t \in TermTopics }
\* ------------------------------------------------------------------------
\* ScoreService: the score history in localStorage
\* ------------------------------------------------------------------------

\* A score is a percentage in hundredths of a percent (3333 is 33.33).  The
\* scores object is an ordered map: a sequence of entries [quizId, scores] in
\* insertion order.  The localStorage item is absent (None) or holds the JSON
\* text of such an object, kept as the entries JSON.parse makes of it.

QuizIdSeq == <<"quizA", "quizB">>
QuizIds == Range(QuizIdSeq)
ScoreValues == {0, 3333}
MaxAttempts == 6

\* When localStorage is not available to the page, getItem and setItem throw in
\* every call.  When it is, a setItem succeeds ("ok") or throws for lack of
\* space ("quota").
WriteOutcomes == {"ok", "quota"}

RecentCount == 5

Entry(quizId, scores) == [quizId |-> quizId, scores |-> scores]

\* getAllScores(): stored ? JSON.parse(stored) : {}, and {} when reading throws
getAllScores ==
    IF ~available \/ storage = None THEN <<>> ELSE storage[1]

\* saveAllScores(scores): the item after the call; a failed write is swallowed
saveAllScores(scores, io) ==
    IF available /\ io = "ok" THEN Some(scores) ELSE storage

\* allScores[quizId]: the scores of the entry, absent when there is no entry
lookup(allScores, quizId) ==
    LET hits == SelectSeq(allScores, LAMBDA e : e.quizId = quizId)
    IN  IF hits = <<>> THEN None ELSE Some(hits[1].scores)

\* allScores[quizId] = scores
assignAlone(allScores, quizId, scores) == <<Entry(quizId, scores)>>

assign(allScores, quizId, scores) ==
    IF lookup(allScores, quizId) = None
    THEN Append(allScores, Entry(quizId, scores))
    ELSE [i \in DOMAIN allScores |->
            IF allScores[i].quizId = quizId THEN Entry(quizId, scores) ELSE allScores[i]]

RECURSIVE sum(_)
sum(a) == IF a = <<>> THEN 0 ELSE Head(a) + sum(Tail(a))

\* Math.max(...a) and Math.min(...a) of a non-empty array
maxOf(a) == CHOOSE x \in Range(a) : \A y \in Range(a) : y <= x
minOf(a) == CHOOSE x \in Range(a) : \A y \in Range(a) : x <= y

\* Math.round(average * 10) / 10, in tenths of a percent: the mean of the scores
\* is sum/(100 n) percent, and Math.round rounds halves up
roundedAverageToUnit(scores) ==
    LET n == Len(scores)
    IN  10 * ((2 * sum(scores) + 100 * n) \div (200 * n))

roundedAverage(scores) ==
    LET n == Len(scores)
    IN  (2 * sum(scores) + 10 * n) \div (20 * n)

\* scores.slice(-5)
recentScoresOldest(scores) == sliceTo(scores, RecentCount)

recentScores(scores) == sliceLast(scores, RecentCount)

\* the statistics both methods compute for a non-empty array
statsOf(scores) ==
    [averageScore |-> roundedAverage(scores), totalAttempts |-> Len(scores),
     bestScore |-> maxOf(scores), worstScore |-> minOf(scores),
     recentScores |-> recentScores(scores)]

\* getScoreStats(quizId): the statistics, or null (None)
getScoreStats(quizId) ==
    LET quizScores == lookup(getAllScores, quizId)
    IN  IF quizScores = None \/ quizScores[1] = <<>>
        THEN None
        ELSE Some(statsOf(quizScores[1]))

Call(fn, quizId, stats) == [fn |-> fn, quizId |-> quizId, stats |-> stats]

attempts == sum([i \in DOMAIN QuizIdSeq |-> Len(recorded[QuizIdSeq[i]])])

CalculateAverageScore(quizId, newScore, io) ==
    /\ UNCHANGED notScore
    /\ attempts < MaxAttempts
    /\ LET allScores == getAllScores
           found == lookup(allScores, quizId)
           quizScores == IF found = None THEN <<>> ELSE found[1]
           updatedScores == Append(quizScores, newScore)
       IN  /\ storage' = saveAllScores(assign(allScores, quizId, updatedScores), io)
           /\ last' = Call("calculateAverageScore", quizId, Some(statsOf(updatedScores)))
    /\ recorded' = [recorded EXCEPT ![quizId] = Append(@, newScore)]
    /\ writesOk' = (writesOk /\ available /\ io = "ok")
    /\ sinceClear' = (IF sinceClear = None THEN None ELSE Some(sinceClear[1] + 1))
    /\ UNCHANGED <<available, history>>

GetScoreStats(quizId) ==
    /\ UNCHANGED notScore
    /\ last' = Call("getScoreStats", quizId, getScoreStats(quizId))
    /\ UNCHANGED <<storage, recorded, writesOk, sinceClear, available, history>>

\* getLeaderboard(limit): limit defaults to 10
DefaultLimit == 10
LeaderboardLimits == {1, DefaultLimit}

\* leaderboard.sort((a, b) => b.averageScore - a.averageScore): stable
RECURSIVE sortByAverageDesc(_)
sortByAverageDesc(board) ==
    IF board = <<>> THEN <<>>
    ELSE LET best == CHOOSE i \in DOMAIN board :
                        /\ \A j \in DOMAIN board : board[j].averageScore <= board[i].averageScore
                        /\ \A j \in 1..(i - 1) : board[j].averageScore < board[i].averageScore
             rest == [j \in 1..(Len(board) - 1) |->
                        IF j < best THEN board[j] ELSE board[j + 1]]
         IN  <<board[best]>> \o sortByAverageDesc(rest)

\* getLeaderboard(limit): the quizzes with a score, best rounded average first
getLeaderboard(limit) ==
    LET scored == SelectSeq(getAllScores, LAMBDA e : Len(e.scores) > 0)
        board == [i \in DOMAIN scored |->
                    [quizId |-> scored[i].quizId,
                     averageScore |-> roundedAverage(scored[i].scores),
                     totalAttempts |-> Len(scored[i].scores)]]
    IN  sliceTo(sortByAverageDesc(board), limit)

\* the fewest scores getPerformanceTrend compares
MinTrendScores == 3

\* getPerformanceTrend(quizId): the second half of the attempts against the
\* first; trend is Math.round(trend * 10) / 10 in tenths of a percent
getPerformanceTrend(quizId) ==
    LET found == lookup(getAllScores, quizId)
        quizScores == found[1]
        midPoint == Len(quizScores) \div 2
        firstHalf == SubSeq(quizScores, 1, midPoint)
        secondHalf == SubSeq(quizScores, midPoint + 1, Len(quizScores))
        num == sum(secondHalf) * Len(firstHalf) - sum(firstHalf) * Len(secondHalf)
        den == 10 * Len(firstHalf) * Len(secondHalf)
    IN  IF found = None \/ Len(quizScores) < MinTrendScores
        THEN [improving |-> FALSE, trend |-> 0]
        ELSE [improving |-> num > 0, trend |-> (2 * num + den) \div (2 * den)]

GetLeaderboard(limit) ==
    /\ UNCHANGED notScore
    /\ last' = [fn |-> "getLeaderboard", limit |-> limit, board |-> getLeaderboard(limit)]
    /\ UNCHANGED <<storage, recorded, writesOk, sinceClear, available, history>>

GetPerformanceTrend(quizId) ==
    /\ UNCHANGED notScore
    /\ last' = [fn |-> "getPerformanceTrend", quizId |-> quizId,
                trend |-> getPerformanceTrend(quizId)]
    /\ UNCHANGED <<storage, recorded, writesOk, sinceClear, available, history>>

\* localStorage.removeItem(this.STORAGE_KEY): the item after the call; the call
\* throws, and removes nothing, when localStorage is not available
clearAllScoresKept == storage

clearAllScores == IF available THEN None ELSE storage

\* clearAllScores() has no try block: an exception of removeItem reaches the caller
ClearAllScores ==
    /\ UNCHANGED notScore
    /\ storage' = clearAllScores
    /\ last' = [fn |-> "clearAllScores", threw |-> ~available]
    /\ sinceClear' = Some(0)
    /\ UNCHANGED <<recorded, writesOk, available, history>>

\* ------------------------------------------------------------------------
\* QuizHistoryPage: the backend's quiz history merged with the local scores
\* ------------------------------------------------------------------------

\* the number of recorded attempts the history page is exercised with
MaxHistoryAttempts == 3

\* a quiz of GET /quiz/history: average_score is optional, in tenths of a percent
HistoryQuiz(id, average_score, submission_count) ==
    [id |-> id, average_score |-> average_score, submission_count |-> submission_count]

HistoryFailure(kind) == [kind |-> kind, data |-> <<>>]
HistoryBody(data) == [kind |-> "ok", data |-> data]

\* the component before it is mounted; store is the scores object the last
\* merge read
NoHistoryPage ==
    [isLoading |-> FALSE, failed |-> FALSE, quizHistory |-> <<>>, store |-> <<>>]

\* a || b for optional numbers: undefined, null and 0 are falsy
orElse(a, b) == IF a # None /\ a[1] # 0 THEN a ELSE b

\* scoreStats?.averageScore and scoreStats?.totalAttempts
averageScoreOf(scoreStats) ==
    IF scoreStats = None THEN None ELSE Some(scoreStats[1].averageScore)
totalAttemptsOf(scoreStats) ==
    IF scoreStats = None THEN None ELSE Some(scoreStats[1].totalAttempts)

\* the entry historyData.map makes of a quiz
enhancedHistoryEntry(quiz) ==
    LET scoreStats == getScoreStats(quiz.id)
    IN  [id |-> quiz.id,
         personal_average_score |-> orElse(averageScoreOf(scoreStats), None),
         personal_attempts |-> orElse(totalAttemptsOf(scoreStats), Some(0)),
         global_average_score |-> quiz.average_score,
         global_attempts |-> Some(quiz.submission_count),
         average_score |-> orElse(averageScoreOf(scoreStats), quiz.average_score),
         submission_count |->
             orElse(totalAttemptsOf(scoreStats), Some(quiz.submission_count))]

\* fetchQuizHistory() up to its request: on mount, or from the Retry button
FetchQuizHistory ==
    /\ UNCHANGED notScore
    /\ ~history.isLoading
    /\ history' = [history EXCEPT !.isLoading = TRUE, !.failed = FALSE]
    /\ UNCHANGED <<available, storage, last, recorded, writesOk, sinceClear>>

\* fetchQuizHistory() from the response to its request
HistoryResponse(resp) ==
    /\ UNCHANGED notScore
    /\ history.isLoading
    /\ history' =
          IF resp.kind # "ok"
          THEN [history EXCEPT !.isLoading = FALSE, !.failed = TRUE]
          ELSE [history EXCEPT
                   !.isLoading = FALSE,
                   !.quizHistory = [i \in DOMAIN resp.data |->
                                       enhancedHistoryEntry(resp.data[i])],
                   !.store = getAllScores]
    /\ UNCHANGED <<available, storage, last, recorded, writesOk, sinceClear>>

\* the responses the history page is exercised with: 42.5 % over 4 submissions
\* and no submission at all
HistoryResponses ==
    { HistoryFailure("notok"),
      HistoryBody(<<>>),
      HistoryBody(<<HistoryQuiz("quizA", Some(425), 4), HistoryQuiz("quizB", None, 0)>>) }
\* ------------------------------------------------------------------------
\* QuizGeneratorPage: the state of the quiz page and its requests in flight
\* ------------------------------------------------------------------------

\* A quiz is [topic, questions] with questions the number of its questions; an
\* answer is the index of an option, -1 when the question is not answered.
PageTopics == { <<>>, <<" ">>, <<"c", "a", "t", "s">> }
QuizSizes == {1, 2}
Options == {0, 1}
Unanswered == -1
MaxRequests == 3

Quiz(topic, questions) == [topic |-> topic, questions |-> questions]
Result(quizId, answers) == [quiz_id |-> quizId, user_answers |-> answers]

\* new Array(n).fill(-1)
unanswered(n) == [i \in 1..n |-> Unanswered]

MainPage ==
    [topic |-> <<>>, isGenerating |-> FALSE, quiz |-> None, userAnswers |-> <<>>,
     isSubmitted |-> FALSE, results |-> None, error |-> None,
     isLoadingQuiz |-> FALSE, quizHistory |-> <<>>]

NoPending == [generate |-> 0, submit |-> <<>>, load |-> 0, sent |-> 0]

resetToMainPage(p) ==
    [p EXCEPT !.topic = <<>>, !.isGenerating = FALSE, !.quiz = None,
              !.userAnswers = <<>>, !.isSubmitted = FALSE, !.results = None,
              !.error = None, !.isLoadingQuiz = FALSE]

\* what the page renders
showsTopicInput == page.quiz = None
showsQuiz == page.quiz # None
showsResults == page.results # None /\ page.isSubmitted

\* the topic input changes
SetTopic(t) ==
    /\ UNCHANGED notPage
    /\ showsTopicInput
    /\ page' = [page EXCEPT !.topic = t]
    /\ UNCHANGED pending

\* generateQuiz, from the button (enabled when not generating and the topic is
\* not blank) or from the Enter key of the input
GenerateQuiz ==
    /\ UNCHANGED notPage
    /\ showsTopicInput
    /\ IF trim(page.topic) = <<>>
       THEN /\ page' = [page EXCEPT !.error = Some("Please enter a topic")]
            /\ UNCHANGED pending
       ELSE /\ pending.sent < MaxRequests
            /\ page' = [page EXCEPT !.isGenerating = TRUE, !.error = None,
                                    !.quiz = None, !.userAnswers = <<>>,
                                    !.isSubmitted = FALSE, !.results = None]
            /\ pending' = [pending EXCEPT !.generate = @ + 1, !.sent = @ + 1]

\* a /quiz/generate request completes
GenerateResponse(ok, quizData) ==
    /\ UNCHANGED notPage
    /\ pending.generate > 0
    /\ pending' = [pending EXCEPT !.generate = @ - 1]
    /\ page' = IF ok
               THEN [page EXCEPT !.quiz = Some(quizData),
                                 !.userAnswers = unanswered(quizData.questions),
                                 !.isGenerating = FALSE]
               ELSE [page EXCEPT !.error = Some("Failed to generate quiz"),
                                 !.isGenerating = FALSE]

\* handleAnswerSelect, from an answer button of a question card
HandleAnswerSelect(questionIndex, answerIndex) ==
    /\ UNCHANGED notPage
    /\ showsQuiz /\ ~page.isSubmitted
    /\ questionIndex \in 1..page.quiz[1].questions
    /\ questionIndex \in DOMAIN page.userAnswers
    /\ page' = [page EXCEPT !.userAnswers[questionIndex] = answerIndex]
    /\ UNCHANGED pending

\* submitQuiz, from the submit button (enabled when every question is answered)
SubmitQuiz ==
    /\ UNCHANGED notPage
    /\ showsQuiz /\ ~page.isSubmitted
    /\ Unanswered \notin Range(page.userAnswers)
    /\ pending.sent < MaxRequests
    /\ pending' = [pending EXCEPT
          !.submit = Append(@, Result(page.quiz[1].topic, page.userAnswers)),
          !.sent = @ + 1]
    /\ UNCHANGED page

\* the i-th /quiz/submit request in flight completes
SubmitResponse(i, ok) ==
    /\ UNCHANGED notPage
    /\ i \in DOMAIN pending.submit
    /\ pending' = [pending EXCEPT
          !.submit = SubSeq(@, 1, i - 1) \o SubSeq(@, i + 1, Len(@))]
    /\ page' = IF ok
               THEN [page EXCEPT !.results = Some(pending.submit[i]),
                                 !.isSubmitted = TRUE,
                                 !.quizHistory = <<pending.submit[i]>> \o @]
               ELSE [page EXCEPT !.error = Some("Failed to submit quiz")]

\* startNewQuiz, from the button of the quiz section (shown until the quiz is
\* submitted) or of the results section
StartNewQuiz ==
    /\ UNCHANGED notPage
    /\ \/ showsQuiz /\ ~page.isSubmitted
       \/ showsResults
    /\ page' = resetToMainPage(page)
    /\ UNCHANGED pending

\* the /quiz/history/:id request of loadSpecificQuiz completes
LoadResponse(ok, quizData) ==
    /\ UNCHANGED notPage
    /\ pending.load > 0
    /\ pending' = [pending EXCEPT !.load = @ - 1]
    /\ page' = IF ok
               THEN [page EXCEPT !.quiz = Some(quizData),
                                 !.userAnswers = unanswered(quizData.questions),
                                 !.isSubmitted = FALSE, !.results = None,
                                 !.isLoadingQuiz = FALSE]
               ELSE [page EXCEPT !.error = Some("Failed to load quiz"),
                                 !.isLoadingQuiz = FALSE]

\* ------------------------------------------------------------------------
\* EnhancedQuizService: the Wikipedia context
\* ------------------------------------------------------------------------

keyIndicators ==
    << <<"i", "s", " ", "a">>, <<"a", "r", "e", " ", "a">>, <<"i", "s", " ", "t", "h", "e">>, <<"a", "r", "e", " ", "t", "h", "e">>, <<"w", "a", "s">>, <<"w", "e", "r", "e">>, <<"h", "a", "s">>, <<"h", "a", "v", "e">>,
       <<"c", "a", "n">>, <<"c", "a", "n", "n", "o", "t">>, <<"i", "n", "c", "l", "u", "d", "e", "s">>, <<"c", "o", "n", "s", "i", "s", "t", "s", " ", "o", "f">>, <<"r", "e", "f", "e", "r", "s", " ", "t", "o">>, <<"m", "e", "a", "n", "s">>,
       <<"d", "e", "f", "i", "n", "e", "d", " ", "a", "s">>, <<"k", "n", "o", "w", "n", " ", "a", "s">> >>

MinFactLen == 20
MaxFacts == 8
MaxSections == 5
MaxContextArticles == 2
ContextSearchLimit == 3
MaxPromptFacts == 10
MaxPromptTopics == 5

SentenceEnds == {".", "!", "?"}

\* extractKeyFacts(text): the sentences longer than 20 characters that contain
\* an indicator, at most 8 of them, trimmed
extractKeyFacts(text) ==
    LET isLong(s) == Len(trim(s)) > MinFactLen
        hasIndicator(s) ==
            \E i \in DOMAIN keyIndicators : includes(toLowerCase(s), keyIndicators[i])
        sentences == SelectSeq(split(text, SentenceEnds), isLong)
        facts == sliceTo(SelectSeq(sentences, hasIndicator), MaxFacts)
    IN  [i \in DOMAIN facts |-> trim(facts[i])]

\* createSummary(articles)
createSummary(articles) ==
    IF articles = <<>> THEN <<>>
    ELSE IF Len(articles) > 1
    THEN LET firsts == [i \in 1..(Len(articles) - 1) |->
                           splitChar(articles[i + 1].extract, ".")[1]]
             isLong(s) == Len(s) > MinFactLen
             additionalFacts == sliceTo(SelectSeq(firsts, isLong), 2)
         IN  articles[1].extract \o <<" ">> \o join(additionalFacts, <<".", " ">>) \o <<".">>
    ELSE articles[1].extract

Context(articles, keyFacts, relatedTopics, summary) ==
    [articles |-> articles, keyFacts |-> keyFacts, relatedTopics |-> relatedTopics,
     summary |-> summary]

createEmptyContext == Context(<<>>, <<>>, <<>>, <<>>)

\* context.keyFacts.slice(0, 10) and context.relatedTopics.slice(0, 5)
promptFactsAll(keyFacts) == keyFacts

promptFacts(keyFacts) == sliceTo(keyFacts, MaxPromptFacts)

promptTopics(relatedTopics) == sliceTo(relatedTopics, MaxPromptTopics)

\* createEnhancedPrompt(topic, context): the parts of the prompt that come from
\* the context; an absent part is not in the prompt
createEnhancedPrompt(topic, context) ==
    [topic |-> topic,
     summary |-> IF context.summary # <<>> THEN Some(context.summary) ELSE None,
     keyFacts |-> IF Len(context.keyFacts) > 0
                  THEN Some(promptFacts(context.keyFacts)) ELSE None,
     relatedTopics |-> IF Len(context.relatedTopics) > 0
                       THEN Some(promptTopics(context.relatedTopics))
                       ELSE None]

NoPrompt == [topic |-> <<>>, summary |-> None, keyFacts |-> None, relatedTopics |-> None]

\* gatherWikipediaContext in progress: where it waits, the first search results,
\* the index of the result being fetched, what it has collected, the requests it
\* issued and the responses it received, the index of the search result each
\* collected article comes from, and the context it returned.
IdleGather ==
    [pc |-> "idle", wver |-> 0, results |-> <<>>, idx |-> 0, articles |-> <<>>,
     keyFacts |-> <<>>, relatedTopics |-> <<>>, reqs |-> <<>>, sResp |-> None,
     aResps |-> <<>>, from |-> <<>>, settled |-> "pending", out |-> None]

gatherReturn(g, context) ==
    [g EXCEPT !.pc = "done", !.settled = "resolved", !.out = Some(context)]

\* the catch block of gatherWikipediaContext
gatherCatch(g) == gatherReturn(g, createEmptyContext)

\* const mainSearchResults = await wikipediaService.searchArticles(topic, 3)
gatherStart(wver, topic) ==
    [IdleGather EXCEPT !.pc = "search", !.wver = wver,
                       !.reqs = <<searchRequest(wver, topic, ContextSearchLimit)>>]

\* mainSearchResults.slice(0, 2)
resultsToFetchAll(searchResults) == searchResults

resultsToFetch(searchResults) == sliceTo(searchResults, MaxContextArticles)

\* the context built after the loop
gatherFinish(g) ==
    gatherReturn(g, Context(g.articles, unique(g.keyFacts), unique(g.relatedTopics),
                            createSummary(g.articles)))

\* the search completes: return the empty context or fetch the first result
gatherOnSearch(g, resp) ==
    LET r == searchArticles(g.wver, resp)
        h == [g EXCEPT !.sResp = Some(resp)]
        todo == resultsToFetch(r.val)
    IN  IF r.rejected THEN gatherCatch(h)
        ELSE IF r.val = <<>> THEN gatherReturn(h, createEmptyContext)
        ELSE [h EXCEPT !.pc = "article", !.results = todo, !.idx = 1,
                       !.reqs = Append(@, articleRequest(g.wver, todo[1].title))]

\* the fetch of result idx completes: collect the article, then fetch the next
\* result or build the context
gatherOnArticle(g, resp) ==
    LET a == getArticle(g.wver, resp)
        h == [g EXCEPT !.aResps = Append(@, resp)]
        article == a.val[1]
        collected ==
            IF a.val = None THEN h
            ELSE [h EXCEPT !.articles = Append(@, article),
                           !.from = Append(@, g.idx),
                           !.keyFacts = @ \o extractKeyFacts(article.extract),
                           !.relatedTopics =
                               @ \o sliceTo(article.sections.items, MaxSections)]
    IN  IF a.rejected THEN gatherCatch(h)
        ELSE IF a.val # None /\ article.sections.kind = "bad" THEN gatherCatch(h)
        ELSE IF g.idx < Len(g.results)
        THEN [collected EXCEPT !.idx = g.idx + 1,
                !.reqs = Append(@, articleRequest(g.wver, g.results[g.idx + 1].title))]
        ELSE gatherFinish(collected)

\* ------------------------------------------------------------------------
\* EnhancedQuizService.generateEnhancedQuiz
\* ------------------------------------------------------------------------

\* Service version "context": the client gathers the Wikipedia context and sends
\* it in the prompt.  Service version "backend": the backend gathers it and
\* returns it with the quiz.
ServiceVersions == {"context", "backend"}

\* the body of a POST /quiz/generate
enhancedRequest(prompt) == [wikipediaEnhanced |-> TRUE, prompt |-> prompt]
regularRequestEnhanced == [wikipediaEnhanced |-> TRUE, prompt |-> NoPrompt]
regularRequest == [wikipediaEnhanced |-> FALSE, prompt |-> NoPrompt]

\* a response to it: a failure, or a body with or without questions and with or
\* without the backend's wikipedia_context
PostFailure(kind) == [kind |-> kind, hasQuestions |-> FALSE, context |-> None]
PostBody(hasQuestions, context) ==
    [kind |-> "ok", hasQuestions |-> hasQuestions, context |-> context]

QuizData(hasQuestions, enhanced, context, sources) ==
    [hasQuestions |-> hasQuestions, wikipediaEnhanced |-> enhanced,
     wikipediaContext |-> context, wikipediaSources |-> sources]

\* enhanceQuizWithSources(quizData, context): quizData.questions.map throws when
\* the body has no questions
enhanceQuizWithSources(quizData, context) ==
    IF ~quizData.hasQuestions THEN Thrown(quizData)
    ELSE Returned(QuizData(TRUE, Some(TRUE), Some(context),
                           [i \in DOMAIN context.articles |-> context.articles[i].title]))

\* generateRegularQuiz(topic), from the response to its request
generateRegularQuiz(ver, resp) ==
    IF resp.kind # "ok" THEN Thrown(QuizData(FALSE, None, None, <<>>))
    ELSE IF ver = "backend"
    THEN Returned(QuizData(resp.hasQuestions, Some(FALSE), None, <<>>))
    ELSE Returned(QuizData(resp.hasQuestions, None, resp.context, <<>>))

\* the try block of generateEnhancedQuiz after the response to its request
enhancedTry(ver, resp, gathered) ==
    IF resp.kind # "ok" THEN Thrown(QuizData(FALSE, None, None, <<>>))
    ELSE IF ver = "backend"
    THEN enhanceQuizWithSources(
             QuizData(resp.hasQuestions, None, resp.context, <<>>),
             IF resp.context = None THEN createEmptyContext ELSE resp.context[1])
    ELSE enhanceQuizWithSources(
             QuizData(resp.hasQuestions, None, resp.context, <<>>), gathered)

IdleGen ==
    [ver |-> "none", pc |-> "idle", topic |-> <<>>, posts |-> <<>>, resps |-> <<>>,
     context |-> createEmptyContext, gatherRejected |-> FALSE, settled |-> "pending",
     quiz |-> QuizData(FALSE, None, None, <<>>)]

settle(g, how, quiz) == [g EXCEPT !.pc = "done", !.settled = how, !.quiz = quiz]

post(g, pc, request) == [g EXCEPT !.pc = pc, !.posts = Append(@, request)]

\* the catch block of generateEnhancedQuiz: the fallback starts with a second
\* gatherWikipediaContext (version "context") or with the regular request
startFallback(g, wver) ==
    IF g.ver = "backend"
    THEN [gen |-> post(g, "regular1", regularRequest), gather |-> gather]
    ELSE [gen |-> [g EXCEPT !.pc = "gather2"], gather |-> gatherStart(wver, g.topic)]

\* what generateEnhancedQuiz does once its gatherWikipediaContext call, now in
\* state gathered, has settled
afterGather(g, gathered) ==
    LET h == [g EXCEPT !.context = gathered.out[1]]
        failed == [g EXCEPT !.gatherRejected = TRUE]
    IN  IF gathered.settled = "rejected"
        THEN IF g.pc = "gather1"
             THEN startFallback(failed, gathered.wver)
             ELSE [gen |-> post(failed, "regular2", regularRequest), gather |-> gathered]
        ELSE IF g.pc = "gather1"
        THEN [gen |-> post(h, "enhanced",
                           enhancedRequest(createEnhancedPrompt(g.topic, h.context))),
              gather |-> gathered]
        ELSE [gen |-> post(h, "regular1", regularRequest), gather |-> gathered]

GenerateEnhancedQuiz(ver, wver, topic) ==
    /\ UNCHANGED <<notQuiz, built>>
    /\ gen.pc = "idle"
    /\ LET g == [IdleGen EXCEPT !.ver = ver, !.topic = topic]
       IN  IF ver = "backend"
           THEN /\ gen' = post(g, "enhanced", enhancedRequest(NoPrompt))
                /\ UNCHANGED gather
           ELSE /\ gen' = [g EXCEPT !.pc = "gather1"]
                /\ gather' = gatherStart(wver, topic)

\* the search request of gatherWikipediaContext completes
GatherSearchResponse(resp) ==
    /\ UNCHANGED <<notQuiz, built>>
    /\ gather.pc = "search"
    /\ LET gathered == gatherOnSearch(gather, resp)
           next == afterGather(gen, gathered)
       IN  IF gathered.pc = "done"
           THEN gen' = next.gen /\ gather' = next.gather
           ELSE gen' = gen /\ gather' = gathered

\* an article request of gatherWikipediaContext completes
GatherArticleResponse(resp) ==
    /\ UNCHANGED <<notQuiz, built>>
    /\ gather.pc = "article"
    /\ LET gathered == gatherOnArticle(gather, resp)
           next == afterGather(gen, gathered)
       IN  IF gathered.pc = "done"
           THEN gen' = next.gen /\ gather' = next.gather
           ELSE gen' = gen /\ gather' = gathered

\* a POST /quiz/generate request completes
PostResponse(resp) ==
    /\ UNCHANGED <<notQuiz, built>>
    /\ gen.pc \in {"enhanced", "regular1", "regular2"}
    /\ LET g == [gen EXCEPT !.resps = Append(@, resp)]
           e == enhancedTry(gen.ver, resp, gen.context)
           r == generateRegularQuiz(gen.ver, resp)
           f == enhanceQuizWithSources(r.val,
                    IF gen.ver = "backend" THEN createEmptyContext ELSE gen.context)
           fallback == startFallback(g, gather.wver)
       IN  IF gen.pc = "enhanced"
           THEN IF e.threw
                THEN gen' = fallback.gen /\ gather' = fallback.gather
                ELSE gen' = settle(g, "resolved", e.val) /\ UNCHANGED gather
           ELSE IF gen.pc = "regular1"
           THEN /\ gen' = IF r.threw \/ f.threw
                          THEN post(g, "regular2", regularRequest)
                          ELSE settle(g, "resolved", f.val)
                /\ UNCHANGED gather
           ELSE /\ gen' = IF r.threw THEN settle(g, "rejected", r.val)
                          ELSE settle(g, "resolved", r.val)
                /\ UNCHANGED gather

\* one application of createEnhancedPrompt to a context
IdleBuilt == [topic |-> <<>>, context |-> createEmptyContext, done |-> FALSE, out |-> NoPrompt]

ApplyCreateEnhancedPrompt ==
    /\ UNCHANGED <<notQuiz, gen, gather>>
    /\ ~built.done
    /\ built' = [built EXCEPT !.done = TRUE,
                              !.out = createEnhancedPrompt(built.topic, built.context)]
\* the arguments and responses the quiz generation is exercised with
ctxCatsArticle ==
    Article(Some(<<"C", "a", "t", "s">>),
            <<"C", "a", "t", "s", " ", "a", "r", "e", " ", "t", "h", "e", " ", "m", "o", "s", "t", " ", "p", "o", "p", "u", "l", "a", "r", " ", "p", "e", "t", "s", ".", " ", "T", "h", "e", "y", " ", "p", "u", "r", "r", ".", " ", "C", "a", "t", "s", " ", "w", "e", "r", "e", " ", "o", "n", "c", "e", " ", "w", "i", "l", "d", " ", "a", "n", "i", "m", "a", "l", "s", "!">>,
            Sections("list", <<<<"B", "e", "h", "a", "v", "i", "o", "r">>, <<"D", "i", "e", "t">>>>))
ctxFelinesArticle ==
    Article(Some(<<"F", "e", "l", "i", "n", "e", "s">>),
            <<" ", "C", "a", "t", "s", " ", "w", "e", "r", "e", " ", "o", "n", "c", "e", " ", "w", "i", "l", "d", " ", "a", "n", "i", "m", "a", "l", "s", ".", " ", "F", "e", "l", "i", "n", "e", "s", " ", "h", "u", "n", "t", " ", "s", "m", "a", "l", "l", " ", "p", "r", "e", "y", " ", "a", "t", " ", "n", "i", "g", "h", "t">>,
            Sections("list", <<<<"D", "i", "e", "t">>, <<"P", "r", "e", "y">>>>))

lionsItem == Item(Some(<<"L", "i", "o", "n", "s">>), 3)

GatherTopics == { <<"c", "a", "t", "s">> }

GatherSearchResponses ==
    { Failure("neterr"), SearchBody(TRUE, <<>>),
      SearchBody(TRUE, <<catsItem>>),
      SearchBody(TRUE, <<felinesItem, catsItem, lionsItem>>) }

GatherArticleResponses ==
    { ArticleFailure("notok"),
      ArticleBody(ctxCatsArticle.title, TRUE, ctxCatsArticle.extract,
                  ctxCatsArticle.sections),
      ArticleBody(ctxFelinesArticle.title, TRUE, ctxFelinesArticle.extract,
                  ctxFelinesArticle.sections),
      ArticleBody(ctxCatsArticle.title, TRUE, ctxCatsArticle.extract,
                  Sections("bad", <<>>)) }

PostResponses ==
    { PostFailure("neterr"), PostFailure("notok"), PostBody(FALSE, None),
      PostBody(TRUE, None),
      PostBody(TRUE, Some(Context(<<catsArticle>>, <<>>, <<<<"D", "i", "e", "t">>>>, <<"C", "a", "t", "s", " ", "p", "u", "r", "r">>))) }

\* the contexts createEnhancedPrompt is applied to: the first n of
\* PromptFactCount facts, the first m of PromptTopicCount topics, with or
\* without a summary
PromptFactCount == 12
PromptTopicCount == 7
Letters == <<"a", "b", "c", "d", "e", "f", "g", "h", "i", "j", "k", "l", "m", "n", "o", "p", "q", "r", "s", "t", "u", "v", "w", "x", "y", "z">>
PromptContexts ==
    { Context(<<>>, [i \in 1..n |-> <<"f", Letters[i]>>],
              [i \in 1..m |-> <<"t", Letters[i]>>], summary) :
        n \in 0..PromptFactCount, m \in 0..PromptTopicCount,
        summary \in {<<>>, <<"C", "a", "t", "s", " ", "p", "u", "r", "r">>} }
\* ------------------------------------------------------------------------
\* Specifications
\* ------------------------------------------------------------------------

WikiIdle == calls = [c \in Slots |-> IdleCall] /\ pure = IdlePure
QuizIdle == gen = IdleGen /\ gather = IdleGather /\ built = IdleBuilt
ScoreIdle ==
    /\ available = TRUE
    /\ storage = None
    /\ last = Call("none", "quizA", None)
    /\ recorded = [q \in QuizIds |-> <<>>]
    /\ writesOk = TRUE
    /\ sinceClear = None
    /\ history = NoHistoryPage
PageIdle == page = MainPage /\ pending = NoPending

\* The WikipediaService, one call at a time, with the full sets of arguments and
\* responses, and its pure methods on drawn arguments.
InitWiki ==
    /\ calls = [c \in Slots |-> IdleCall]
    /\ pure \in {IdlePure} \cup PureInputs
    /\ QuizIdle /\ ScoreIdle /\ PageIdle

NextWiki ==
    \/ \E v \in Versions, content \in Contents, topic \in Topics :
          FactCheckStart(1, v, content, topic)
    \/ \E v \in Versions, q \in Queries, l \in Limits :
          SearchArticlesStart(1, v, q, l)
    \/ \E v \in Versions, q \in Queries : GetArticleStart(1, v, q)
    \/ \E resp \in SearchResponses : SearchResponse(1, resp)
    \/ \E resp \in ArticleResponses : ArticleResponse(1, resp)
    \/ \E resp \in BackendResponses : BackendResponse(1, resp)
    \/ ApplyRelevanceScore
    \/ ApplyExtractKeyTerms

SpecWiki == InitWiki /\ [][NextWiki]_vars

\* The WikipediaService with several calls in flight, interleaved at their awaits.
InitConc == WikiIdle /\ QuizIdle /\ ScoreIdle /\ PageIdle

NextConc ==
    \E c \in Slots :
        \/ \E content \in ConcContents : FactCheckStart(c, 2, content, None)
        \/ \E v \in Versions : SearchArticlesStart(c, v, <<"c", "a", "t", "s">>, SearchLimit)
        \/ \E v \in Versions : GetArticleStart(c, v, <<"F", "e", "l", "i", "n", "e", "s">>)
        \/ \E resp \in ConcSearchResponses : SearchResponse(c, resp)
        \/ \E resp \in ConcArticleResponses : ArticleResponse(c, resp)

SpecWikiConc == InitConc /\ [][NextConc]_vars

\* The EnhancedQuizService: one generateEnhancedQuiz call.
InitQuiz == WikiIdle /\ QuizIdle /\ ScoreIdle /\ PageIdle

NextQuiz ==
    \/ \E ver \in ServiceVersions, wver \in Versions, topic \in GatherTopics :
          GenerateEnhancedQuiz(ver, wver, topic)
    \/ \E resp \in GatherSearchResponses : GatherSearchResponse(resp)
    \/ \E resp \in GatherArticleResponses : GatherArticleResponse(resp)
    \/ \E resp \in PostResponses : PostResponse(resp)

SpecQuiz == InitQuiz /\ [][NextQuiz]_vars

\* The ScoreService over a localStorage that is available to the page or not.
InitScore ==
    /\ available \in BOOLEAN
    /\ storage = None
    /\ last = Call("none", "quizA", None)
    /\ recorded = [q \in QuizIds |-> <<>>]
    /\ writesOk = TRUE
    /\ sinceClear = None
    /\ history = NoHistoryPage
    /\ WikiIdle /\ QuizIdle /\ PageIdle

NextScore ==
    \/ \E q \in QuizIds, s \in ScoreValues, io \in WriteOutcomes :
          CalculateAverageScore(q, s, io)
    \/ \E q \in QuizIds : GetScoreStats(q)
    \/ \E limit \in LeaderboardLimits : GetLeaderboard(limit)
    \/ \E q \in QuizIds : GetPerformanceTrend(q)

SpecScore == InitScore /\ [][NextScore]_vars

\* The quiz page, mounted without a quiz parameter in the URL (the effect resets
\* the page) or with one (the effect starts loadSpecificQuiz).
InitPage ==
    /\ \/ page = MainPage /\ pending = NoPending
       \/ /\ page = [MainPage EXCEPT !.isLoadingQuiz = TRUE]
          /\ pending = [NoPending EXCEPT !.load = 1]
    /\ WikiIdle /\ QuizIdle /\ ScoreIdle

NextPage ==
    \/ \E t \in PageTopics : SetTopic(t)
    \/ GenerateQuiz
    \/ \E ok \in BOOLEAN, n \in QuizSizes : GenerateResponse(ok, Quiz(<<"c", "a", "t", "s">>, n))
    \/ \E i \in 1..2, a \in Options : HandleAnswerSelect(i, a)
    \/ SubmitQuiz
    \/ \E i \in 1..MaxRequests, ok \in BOOLEAN : SubmitResponse(i, ok)
    \/ StartNewQuiz
    \/ \E ok \in BOOLEAN, n \in QuizSizes : LoadResponse(ok, Quiz(<<"d", "o", "g", "s">>, n))

SpecPage == InitPage /\ [][NextPage]_vars

\* the history page over a score store of at most MaxHistoryAttempts attempts
NextHistory ==
    \/ \E q \in QuizIds, s \in ScoreValues, io \in WriteOutcomes :
          attempts < MaxHistoryAttempts /\ CalculateAverageScore(q, s, io)
    \/ FetchQuizHistory
    \/ \E resp \in HistoryResponses : HistoryResponse(resp)

SpecHistory == InitScore /\ [][NextHistory]_vars

\* createEnhancedPrompt applied to each of the contexts
InitPrompt ==
    /\ gen = IdleGen /\ gather = IdleGather
    /\ built \in { [IdleBuilt EXCEPT !.topic = <<"c", "a", "t", "s">>, !.context = c] : c \in PromptContexts }
    /\ WikiIdle /\ ScoreIdle /\ PageIdle

NextPrompt == ApplyCreateEnhancedPrompt

SpecPrompt == InitPrompt /\ [][NextPrompt]_vars

\* extractKeyTerms applied to each of the texts
InitTerms ==
    /\ calls = [c \in Slots |-> IdleCall]
    /\ pure \in TermInputs
    /\ QuizIdle /\ ScoreIdle /\ PageIdle

NextTerms == ApplyExtractKeyTerms

SpecTerms == InitTerms /\ [][NextTerms]_vars

\* the statistics of one quiz over whole and fractional percentages: 33.33 and
\* 66.67 are one and two of three questions, 12.5 is one of eight
MaxStatAttempts == 4
StatScores == {0, 1250, 3333, 5000, 6667, 10000}

NextStats ==
    \/ \E s \in StatScores :
          attempts < MaxStatAttempts /\ CalculateAverageScore("quizA", s, "ok")
    \/ GetScoreStats("quizA")

SpecStats == InitScore /\ [][NextStats]_vars

\* the whole service, clearAllScores included, over at most MaxClearAttempts
\* attempts
MaxClearAttempts == 4

NextClear ==
    \/ \E q \in QuizIds, s \in ScoreValues, io \in WriteOutcomes :
          attempts < MaxClearAttempts /\ CalculateAverageScore(q, s, io)
    \/ \E q \in QuizIds : GetScoreStats(q)
    \/ \E limit \in LeaderboardLimits : GetLeaderboard(limit)
    \/ \E q \in QuizIds : GetPerformanceTrend(q)
    \/ ClearAllScores

SpecClear == InitScore /\ [][NextClear]_vars
\* ------------------------------------------------------------------------
\* Properties of the fact-check pipeline
\* ------------------------------------------------------------------------

InUnitInterval(x) == 0 <= x.num /\ x.num <= x.den /\ x.den > 0

IsPrefix(s, t) == Len(s) <= Len(t) /\ s = SubSeq(t, 1, Len(s))

FactChecks == {c \in Slots : calls[c].op = "factCheck"}
ClientFactChecks == {c \in FactChecks : calls[c].ver = 2}
Finished(c) == calls[c].pc = "done"

\* C1: calculateRelevanceScore returns a value between 0 and 1 for every content,
\* article and list of key terms, and so does every score factCheck computes
\* from a fetched article.
C1_ScoreInUnitInterval ==
    /\ (pure.fn = "calculateRelevanceScore" /\ pure.done) => InUnitInterval(pure.score)
    /\ \A c \in ClientFactChecks :
          /\ calls[c].score # None => InUnitInterval(calls[c].score[1])
          /\ (Finished(c) /\ calls[c].settled = "resolved")
                => InUnitInterval(calls[c].fc[1].relevanceScore)

\* four key terms found in the article and in its title: the sum of the weights
\* exceeds 1 and the returned score is exactly 1
C1_Witness ==
    /\ pure.fn = "calculateRelevanceScore" /\ pure.done
    /\ Len(pure.keyTerms) = 4 /\ pure.article = catsArticle
    /\ pure.score.num = pure.score.den

IsFallback(r, content) ==
    /\ r.query = content
    /\ r.found = FALSE
    /\ r.confidence = "low"
    /\ FracEq(r.relevanceScore, Frac(0, 1))

\* the search of a client-side call came back without a usable result
NoSearchResults(resp) ==
    \/ resp.kind # "ok"
    \/ ~resp.hasList
    \/ resp.items = <<>>
    \/ \E i \in DOMAIN resp.items : resp.items[i].title = None

\* the article came back, without a title: scoring raises a TypeError
ScoringThrows(resp) ==
    resp.kind = "ok" /\ resp.data.sections.kind # "bad" /\ resp.data.title = None

\* C2: factCheck never rejects; without key terms, without search results and
\* after an exception its result is found=false, confidence low, relevanceScore 0,
\* query = the content.
C2_FactCheckNeverRejects ==
    \A c \in FactChecks :
        /\ calls[c].settled # "rejected"
        /\ Finished(c) =>
            LET call == calls[c]
                r == call.fc[1]
            IN  /\ call.settled = "resolved" /\ call.fc # None
                /\ (call.ver = 2 /\ extractKeyTerms(call.content, call.topic) = <<>>)
                      => IsFallback(r, call.content)
                /\ (call.ver = 2 /\ call.sResp # None /\ NoSearchResults(call.sResp[1]))
                      => IsFallback(r, call.content)
                /\ (call.ver = 2 /\ call.aResp # None /\ ScoringThrows(call.aResp[1]))
                      => IsFallback(r, call.content)
                /\ (call.ver = 1 /\ call.bResp[1].kind # "ok")
                      => IsFallback(r, call.content)

\* an article without a title was fetched, scoring threw, the call resolved
C2_Witness ==
    \E c \in ClientFactChecks :
        /\ Finished(c) /\ calls[c].aResp # None /\ ScoringThrows(calls[c].aResp[1])
        /\ calls[c].settled = "resolved" /\ IsFallback(calls[c].fc[1], calls[c].content)

RequestsOf(call, kind) == SelectSeq(call.reqs, LAMBDA r : r.kind = kind)

\* C3: a factCheck call goes through extraction, search, fetch and scoring in
\* that order; it searches only if a key term was extracted, fetches only if the
\* search returned a result, scores only a fetched article, and issues at most
\* one search (first key term, limit 3) and one fetch (first search result).
C3_StagesInOrder ==
    \A c \in ClientFactChecks :
        LET call == calls[c]
            searches == RequestsOf(call, "search")
            fetches == RequestsOf(call, "article")
        IN  /\ IsPrefix(call.stages, Stages)
            /\ call.reqs = searches \o fetches
            /\ Len(searches) <= 1 /\ Len(fetches) <= 1
            /\ Len(searches) = (IF Len(call.stages) >= 2 THEN 1 ELSE 0)
            /\ Len(fetches) = (IF Len(call.stages) >= 3 THEN 1 ELSE 0)
            /\ extractKeyTerms(call.content, call.topic) = <<>> => call.reqs = <<>>
            /\ searches # <<>> =>
                  /\ searches[1].arg = extractKeyTerms(call.content, call.topic)[1]
                  /\ searches[1].limit = 3
            /\ fetches # <<>> =>
                  /\ call.sResp # None /\ ~NoSearchResults(call.sResp[1])
                  /\ fetches[1].arg = call.sResp[1].items[1].title[1]
            /\ Len(call.stages) = 4 =>
                  /\ call.aResp # None /\ call.aResp[1].kind = "ok"
                  /\ fetches # <<>>

\* a call that went through the four stages, with two key terms to choose from
C3_Witness ==
    \E c \in ClientFactChecks :
        /\ Finished(c) /\ calls[c].stages = Stages
        /\ Len(calls[c].keyTerms) >= 2 /\ Len(calls[c].reqs) = 2
        /\ Len(calls[c].sResp[1].items) = 2

\* C4 (as stated): found=true with an article only when its score is above 0.
C4_FoundOnlyIfRelevant ==
    \A c \in ClientFactChecks :
        (Finished(c) /\ calls[c].fc[1].found /\ calls[c].fc[1].article # None)
            => FracLt(Frac(0, 1), calls[c].fc[1].relevanceScore)

\* the article of the best match was fetched and scored
Fetched(call) ==
    /\ call.aResp # None /\ call.aResp[1].kind = "ok"
    /\ call.aResp[1].data.sections.kind # "bad"
    /\ call.aResp[1].data.title # None

\* C4 (amended): found=true exactly when the article of the first search result
\* was fetched and scored, whatever the score; the score decides the confidence
\* only, and an article that scores 0 is reported as found with confidence low.
C4_FoundIffFetched ==
    \A c \in ClientFactChecks :
        Finished(c) =>
            LET call == calls[c]
                r == call.fc[1]
            IN  /\ r.found <=> Fetched(call)
                /\ r.found => /\ r.article # None
                              /\ call.score = Some(r.relevanceScore)
                /\ (r.found /\ FracEq(r.relevanceScore, Frac(0, 1)))
                      => r.confidence = "low"

\* an article that scores 0 against the content, reported as found
C4_Witness ==
    \E c \in ClientFactChecks :
        /\ Finished(c) /\ calls[c].fc[1].found
        /\ calls[c].fc[1].article # None
        /\ FracEq(calls[c].fc[1].relevanceScore, Frac(0, 1))

\* C5: searchArticles and getArticle never reject; searchArticles resolves to
\* the empty list on a network error, a non-OK response and a response without
\* search data, getArticle to null on a network error and a non-OK response.
C5_LookupsNeverReject ==
    \A c \in Slots :
        LET call == calls[c]
        IN  /\ call.settled # "rejected"
            /\ (call.op = "searchArticles" /\ Finished(c)) =>
                  /\ call.settled = "resolved"
                  /\ (call.sResp[1].kind # "ok" \/ ~call.sResp[1].hasList)
                        => call.list = <<>>
            /\ (call.op = "getArticle" /\ Finished(c)) =>
                  /\ call.settled = "resolved"
                  /\ call.aResp[1].kind # "ok" => call.art = None

\* a search that met a network error and resolved to the empty list
C5_Witness ==
    \E c \in Slots :
        /\ calls[c].op = "searchArticles" /\ Finished(c)
        /\ calls[c].sResp[1].kind = "neterr"
        /\ calls[c].settled = "resolved" /\ calls[c].list = <<>>

SameCall(a, b) ==
    /\ a.ver = b.ver /\ a.content = b.content /\ a.topic = b.topic
    /\ a.sResp = b.sResp /\ a.aResp = b.aResp

\* C7: two factCheck calls with the same content and topic that receive the same
\* responses return equal results, whatever calls ran before or between them.
C7_FactCheckDeterministic ==
    \A c1 \in ClientFactChecks, c2 \in ClientFactChecks :
        (Finished(c1) /\ Finished(c2) /\ SameCall(calls[c1], calls[c2]))
            => /\ calls[c1].settled = calls[c2].settled
               /\ calls[c1].fc = calls[c2].fc

\* two equal calls that found the article, and a call with another content
C7_Witness ==
    \E c1 \in ClientFactChecks, c2 \in ClientFactChecks, c3 \in ClientFactChecks :
        /\ c1 # c2 /\ Finished(c1) /\ Finished(c2) /\ Finished(c3)
        /\ SameCall(calls[c1], calls[c2])
        /\ calls[c1].fc[1].found
        /\ calls[c3].content # calls[c1].content


\* the results with found=true of finished client-side calls
FoundResults ==
    { calls[c].fc[1] : c \in {d \in ClientFactChecks : Finished(d) /\ calls[d].fc[1].found} }

\* C14: for a result with found=true the confidence is determined by the
\* relevance score: high exactly above 0.7, medium exactly above 0.4 and up to
\* 0.7, low exactly up to 0.4.
C14_ConfidenceFromScore ==
    \A r \in FoundResults :
        LET s == r.relevanceScore
        IN  /\ r.confidence \in {"high", "medium", "low"}
            /\ r.confidence = "high" <=> 10 * s.num > 7 * s.den
            /\ r.confidence = "medium" <=>
                  (10 * s.num > 4 * s.den /\ 10 * s.num <= 7 * s.den)
            /\ r.confidence = "low" <=> 10 * s.num <= 4 * s.den

\* a found article that scores exactly 0.7, reported with confidence medium
C14_Witness ==
    \E r \in FoundResults :
        10 * r.relevanceScore.num = 7 * r.relevanceScore.den /\ r.confidence = "medium"

\* the search of the call returned at least one result
SearchHadResults(call) == call.sResp # None /\ ~NoSearchResults(call.sResp[1])

\* the article request of the call failed: network error, non-OK status,
\* unparsable or unusable body
FetchFailed(call) ==
    /\ call.aResp # None
    /\ \/ call.aResp[1].kind # "ok"
       \/ call.aResp[1].data.sections.kind = "bad"

\* C15: a client-side factCheck result has found=true exactly when it carries
\* an article; with found=false the confidence is low and the relevance score is
\* 0, except that it is 0.3, with the search results attached, exactly when the
\* search returned a result and the fetch of the first result's article failed.
C15_NotFoundScores ==
    \A c \in ClientFactChecks :
        Finished(c) =>
            LET call == calls[c]
                r == call.fc[1]
                s == r.relevanceScore
            IN  /\ r.found <=> r.article # None
                /\ ~r.found =>
                    /\ r.confidence = "low"
                    /\ IF SearchHadResults(call) /\ FetchFailed(call)
                       THEN /\ 10 * s.num = 3 * s.den
                            /\ r.searchResults # None
                            /\ r.searchResults[1] = call.sResp[1].items
                       ELSE s.num = 0

\* a search with two results whose first article could not be fetched
C15_Witness ==
    \E c \in ClientFactChecks :
        /\ Finished(c) /\ ~calls[c].fc[1].found
        /\ SearchHadResults(calls[c]) /\ FetchFailed(calls[c])
        /\ Len(calls[c].fc[1].searchResults[1]) = 2
        /\ 10 * calls[c].fc[1].relevanceScore.num = 3 * calls[c].fc[1].relevanceScore.den
\* ------------------------------------------------------------------------
\* Properties of the Wikipedia context and of the quiz generation
\* ------------------------------------------------------------------------

NoDuplicates(a) == \A i \in DOMAIN a, j \in DOMAIN a : a[i] = a[j] => i = j

Increasing(a) == \A i \in DOMAIN a, j \in DOMAIN a : i < j => a[i] < a[j]

\* the search of the context came back without a result the service keeps
GatherNoResults(wver, resp) ==
    \/ resp.kind # "ok" \/ ~resp.hasList \/ resp.items = <<>>
    \/ wver = 2 /\ \E i \in DOMAIN resp.items : resp.items[i].title = None

\* a fetched article whose sections are not an array: reading them throws
GatherStepThrew(g) ==
    \E i \in DOMAIN g.aResps :
        g.wver = 1 /\ g.aResps[i].kind = "ok" /\ g.aResps[i].data.sections.kind = "bad"

\* the fetch that got resp succeeded
FetchSucceeded(wver, resp) ==
    resp.kind = "ok" /\ (wver = 2 => resp.data.sections.kind # "bad")

\* C6: gatherWikipediaContext never rejects; without search results and after an
\* exception it returns the empty context; otherwise the context holds the
\* articles whose fetch succeeded, at most 2, from the first two search results
\* in search order, and keyFacts and relatedTopics have no duplicates.
C6_ContextFromFirstTwoResults ==
    /\ gather.settled # "rejected" /\ ~gen.gatherRejected
    /\ gather.pc = "done" =>
        LET context == gather.out[1]
            items == gather.sResp[1].items
        IN  /\ gather.settled = "resolved"
            /\ Len(gather.reqs) <= 1 + MaxContextArticles
            /\ (GatherNoResults(gather.wver, gather.sResp[1]) \/ GatherStepThrew(gather))
                  => context = createEmptyContext
            /\ ~(GatherNoResults(gather.wver, gather.sResp[1]) \/ GatherStepThrew(gather))
                  => /\ Len(context.articles) <= 2
                     /\ Len(context.articles) =
                           Cardinality({i \in DOMAIN gather.aResps :
                                           FetchSucceeded(gather.wver, gather.aResps[i])})
                     /\ Len(gather.from) = Len(context.articles)
                     /\ Increasing(gather.from)
                     /\ \A i \in DOMAIN context.articles :
                           LET k == gather.from[i]
                           IN  /\ k \in 1..2 /\ k <= Len(items)
                               /\ gather.reqs[1 + k].arg = items[k].title[1]
                               /\ FetchSucceeded(gather.wver, gather.aResps[k])
                               /\ context.articles[i].title = gather.aResps[k].data.title
                     /\ NoDuplicates(context.keyFacts)
                     /\ NoDuplicates(context.relatedTopics)

\* three search results, two articles fetched, a fact and a section in both
C6_Witness ==
    /\ gather.pc = "done" /\ gather.settled = "resolved"
    /\ Len(gather.sResp[1].items) = 3
    /\ Len(gather.out[1].articles) = 2
    /\ Len(gather.keyFacts) > Len(gather.out[1].keyFacts)
    /\ Len(gather.relatedTopics) > Len(gather.out[1].relatedTopics)

PostFailed(resp) == resp.kind # "ok"

\* C10: when the enhanced request fails a regular request is made; the call
\* rejects only if regular generation fails too; a call issues at most 3
\* requests, one enhanced and then at most two regular.
C10_FallbackToRegular ==
    /\ Len(gen.posts) <= 3
    /\ \A i \in DOMAIN gen.posts : gen.posts[i].wikipediaEnhanced = (i = 1)
    /\ gen.pc = "done" =>
          /\ PostFailed(gen.resps[1]) =>
                Len(gen.posts) >= 2 /\ ~gen.posts[2].wikipediaEnhanced
          /\ gen.settled = "rejected" =>
                /\ Len(gen.posts) = 3
                /\ PostFailed(gen.resps[3])
                /\ ~gen.posts[3].wikipediaEnhanced

\* the enhanced request and both regular requests failed: the call rejects
C10_Witness ==
    /\ gen.pc = "done" /\ gen.settled = "rejected"
    /\ Len(gen.posts) = 3 /\ PostFailed(gen.resps[1])

\* ------------------------------------------------------------------------
\* Properties of the score store
\* ------------------------------------------------------------------------

\* C8: with all writes succeeding, getScoreStats(q) returns null exactly when no
\* score is recorded for q, and otherwise the number of recorded scores, their
\* maximum and minimum, and the last min(5, n) of them in recording order.
C8_StatsOfRecordedScores ==
    (last.fn = "getScoreStats" /\ writesOk) =>
        LET scores == recorded[last.quizId]
            n == Len(scores)
            stats == last.stats[1]
        IN  /\ last.stats = None <=> n = 0
            /\ n >= 1 =>
                /\ stats.totalAttempts = n
                /\ stats.bestScore \in Range(scores)
                /\ stats.worstScore \in Range(scores)
                /\ \A i \in 1..n : stats.worstScore <= scores[i]
                                   /\ scores[i] <= stats.bestScore
                /\ Len(stats.recentScores) = (IF n < 5 THEN n ELSE 5)
                /\ \A i \in DOMAIN stats.recentScores :
                      stats.recentScores[i] = scores[n - Len(stats.recentScores) + i]

\* six scores recorded for a quiz, the first differs from the sixth
C8_Witness ==
    /\ last.fn = "getScoreStats" /\ writesOk
    /\ Len(recorded[last.quizId]) = 6
    /\ recorded[last.quizId][1] # recorded[last.quizId][6]
    /\ last.stats # None

\* ------------------------------------------------------------------------
\* Properties of the quiz page
\* ------------------------------------------------------------------------

\* C9: the results section is shown only when a quiz is present: results set and
\* isSubmitted true imply quiz set.
C9_ResultsOnlyWithQuiz == showsResults => page.quiz # None


\* ------------------------------------------------------------------------
\* Properties of the fallback quiz and of the enhanced prompt
\* ------------------------------------------------------------------------

\* the call returned the quiz of a fallback regular request
ReturnedFallback ==
    gen.pc = "done" /\ gen.settled = "resolved" /\ Len(gen.posts) >= 2

HasArticles(quiz) ==
    quiz.wikipediaContext # None /\ Len(quiz.wikipediaContext[1].articles) >= 1

\* C11: a fallback regular quiz returned by generateEnhancedQuiz is marked
\* wikipediaEnhanced = true only if its Wikipedia context has at least one
\* article; with the empty context it is not marked as enhanced.
C11_FallbackEnhancedOnlyWithContext ==
    ReturnedFallback =>
        (gen.quiz.wikipediaEnhanced = Some(TRUE) => HasArticles(gen.quiz))

\* the part is absent for an empty field and otherwise its first limit elements
FirstOf(part, field, limit) ==
    IF field = <<>> THEN part = None
    ELSE /\ part # None
         /\ Len(part[1]) = Min(Len(field), limit)
         /\ \A i \in DOMAIN part[1] : part[1][i] = field[i]

\* C13: the prompt createEnhancedPrompt builds holds at most the first 10 key
\* facts and the first 5 related topics of the context, in context order, and
\* holds the summary, key-facts and related-topics sections only when the
\* context field is non-empty; for the empty context it holds none of them.
C13_PromptWithinLimits ==
    built.done =>
        /\ FirstOf(built.out.keyFacts, built.context.keyFacts, 10)
        /\ FirstOf(built.out.relatedTopics, built.context.relatedTopics, 5)
        /\ built.out.summary =
              (IF built.context.summary = <<>> THEN None ELSE Some(built.context.summary))
        /\ built.context = createEmptyContext => built.out = [NoPrompt EXCEPT !.topic = built.topic]

\* a context with more than 10 facts, more than 5 topics and a summary
C13_Witness ==
    /\ built.done
    /\ Len(built.context.keyFacts) > 10
    /\ Len(built.context.relatedTopics) > 5
    /\ built.context.summary # <<>>

\* ------------------------------------------------------------------------
\* Properties of the quiz history page
\* ------------------------------------------------------------------------

\* the scores the last merge found in the store for a quiz
MergedScores(id) ==
    LET found == lookup(history.store, id)
    IN  IF found = None THEN <<>> ELSE found[1]

\* C12: in the merged quiz history, every quiz with at least one local attempt
\* carries the personal statistics: personal_average_score and average_score
\* are the local average and submission_count is the local attempt count, also
\* when that average is 0; the backend's values are used only without attempts.
C12_PersonalStatsWhenRecorded ==
    \A i \in DOMAIN history.quizHistory :
        LET entry == history.quizHistory[i]
            scores == MergedScores(entry.id)
        IN  IF Len(scores) >= 1
            THEN /\ entry.personal_average_score = Some(roundedAverage(scores))
                 /\ entry.average_score = Some(roundedAverage(scores))
                 /\ entry.submission_count = Some(Len(scores))
            ELSE /\ entry.average_score = entry.global_average_score
                 /\ entry.submission_count = entry.global_attempts

\* ------------------------------------------------------------------------
\* Properties of extractKeyTerms
\* ------------------------------------------------------------------------

\* the text 'topic content' in lower case with punctuation replaced by spaces,
\* and its words
StrippedText(content, topic) ==
    replaceNonWord(toLowerCase((IF topic = None THEN <<>> ELSE topic[1])
                               \o <<" ">> \o content))
TextWords(content, topic) == split(StrippedText(content, topic), SpaceChars)

Eligible(w) == Len(w) >= 2 /\ w \notin stopWords

EligibleWords(content, topic) == SelectSeq(TextWords(content, topic), Eligible)

Extracted == pure.fn = "extractKeyTerms" /\ pure.done

\* C16: extractKeyTerms returns at most 3 terms, pairwise distinct, each in
\* lower case, at least 2 characters long, not a stop word and a word of the
\* punctuation-stripped text 'topic content'; it returns the empty list exactly
\* when the text has no such word.
C16_TermsAreEligibleWords ==
    Extracted =>
        LET terms == pure.terms
            words == TextWords(pure.content, pure.topic)
        IN  /\ Len(terms) <= 3
            /\ \A i, j \in DOMAIN terms : i # j => terms[i] # terms[j]
            /\ \A i \in DOMAIN terms :
                  /\ terms[i] = toLowerCase(terms[i])
                  /\ Eligible(terms[i])
                  /\ terms[i] \in Range(words)
            /\ terms = <<>> <=> ~\E i \in DOMAIN words : Eligible(words[i])

\* a text with a stop word, a one-letter word, punctuation, upper case and four
\* eligible words, of which three are returned
C16_Witness ==
    /\ Extracted
    /\ pure.topic = Some(<<"D", "o", "g", "s", " ", "a", "n", "d", " ", "b", "i", "r", "d", "s">>)
    /\ pure.content = <<"T", "h", "e", " ", "c", "a", "t", "s", ",", " ", "x", " ", "p", "u", "r", "r">>
    /\ Len(pure.terms) = 3

Occurrences(words, w) == Cardinality({i \in DOMAIN words : words[i] = w})
FirstIndex(words, w) == CHOOSE i \in DOMAIN words :
                            words[i] = w /\ \A j \in 1..(i - 1) : words[j] # w

\* w comes before v in the order of the result: more occurrences, or as many
\* and an earlier first occurrence
Before(words, w, v) ==
    \/ Occurrences(words, w) > Occurrences(words, v)
    \/ /\ Occurrences(words, w) = Occurrences(words, v)
       /\ FirstIndex(words, w) < FirstIndex(words, v)

\* C17: extractKeyTerms returns the most common terms first: by non-increasing
\* number of occurrences, no omitted eligible word occurring more often than a
\* returned one, and words occurring equally often in the order of their first
\* occurrence in 'topic content'.
C17_MostCommonFirst ==
    Extracted =>
        LET terms == pure.terms
            words == EligibleWords(pure.content, pure.topic)
            omitted == Range(words) \ Range(terms)
        IN  /\ \A i, j \in DOMAIN terms : i < j => Before(words, terms[i], terms[j])
            /\ \A w \in omitted : \A i \in DOMAIN terms : Before(words, terms[i], w)
            /\ omitted # {} => Len(terms) = 3

\* two words occur twice and come first in the order of their first occurrence;
\* of the two that occur once the earlier one is returned, the other omitted
C17_Witness ==
    /\ Extracted
    /\ pure.topic = Some(<<"D", "o", "g", "s", " ", "a", "n", "d", " ", "b", "i", "r", "d", "s">>)
    /\ pure.content = <<"d", "o", "g", "s", " ", "C", "a", "t", "s", " ", "p", "u", "r", "r", " ", "p", "u", "r", "r">>
    /\ pure.terms = <<<<"d", "o", "g", "s">>, <<"p", "u", "r", "r">>, <<"b", "i", "r", "d", "s">>>>

\* ------------------------------------------------------------------------
\* Properties of calculateAverageScore and of the readers of the store
\* ------------------------------------------------------------------------

\* the scores object held by a value of the localStorage item
Parsed(item) == IF item = None THEN <<>> ELSE item[1]

StoredScores(item, quizId) ==
    LET found == lookup(Parsed(item), quizId)
    IN  IF found = None THEN <<>> ELSE found[1]

\* the step is a call of calculateAverageScore
CalculateStep == recorded' # recorded

\* the step stored, for quiz q, the previous array followed by score s, and
\* kept the arrays of the other quizzes
AppendedOnly(q, s) ==
    /\ StoredScores(storage', q) = Append(StoredScores(storage, q), s)
    /\ \A other \in QuizIds \ {q} :
          lookup(Parsed(storage'), other) = lookup(Parsed(storage), other)

\* C18: calculateAverageScore(q, s) only appends: a successful write stores the
\* previous array of q followed by s and leaves the arrays of the other quizzes
\* as they were; getScoreStats, getLeaderboard and getPerformanceTrend leave
\* the store unchanged.
C18_AppendOnly ==
    [][ LET q == last'.quizId
            s == recorded'[q][Len(recorded'[q])]
        IN  /\ CalculateStep =>
                /\ last'.fn = "calculateAverageScore"
                /\ storage' # storage => AppendedOnly(q, s)
                /\ writesOk' => storage' # storage
            /\ ~CalculateStep => storage' = storage
      ]_vars

\* a score appended to an array of two scores, with scores stored for the
\* other quiz too
C18_Witness ==
    /\ last.fn = "calculateAverageScore" /\ writesOk
    /\ Len(StoredScores(storage, last.quizId)) = 3
    /\ StoredScores(storage, last.quizId) = recorded[last.quizId]
    /\ \E other \in QuizIds \ {last.quizId} : Len(StoredScores(storage, other)) = 2

\* C19: the statistics calculateAverageScore(q, s) returned equal the ones a
\* getScoreStats(q) call made right after it returns, whatever the outcome of
\* the localStorage read and write.
C19_StatsAgreeWithStore ==
    [][ (/\ last.fn = "calculateAverageScore"
         /\ last'.fn = "getScoreStats"
         /\ last'.quizId = last.quizId)
            => last'.stats = last.stats ]_vars

\* C20 (as stated): in the statistics calculateAverageScore and getScoreStats return, the
\* average, rounded to one decimal, lies between the worst and the best score.
C20_AverageBetweenWorstAndBest ==
    (last.fn \in {"calculateAverageScore", "getScoreStats"} /\ last.stats # None) =>
        LET stats == last.stats[1]
        IN  /\ stats.worstScore <= 10 * stats.averageScore
            /\ 10 * stats.averageScore <= stats.bestScore

ReturnedStats ==
    last.fn \in {"calculateAverageScore", "getScoreStats"} /\ last.stats # None

\* C20 (amended): the average is rounded to one decimal and the worst and best
\* scores are not, so the average lies between worst - 0.05 and best + 0.05;
\* it is not below a worst score and not above a best score that is itself a
\* multiple of 0.1, as every whole percentage is.
C20_AverageWithinRounding ==
    ReturnedStats =>
        LET stats == last.stats[1]
        IN  /\ stats.worstScore - 5 <= 10 * stats.averageScore
            /\ 10 * stats.averageScore <= stats.bestScore + 5
            /\ stats.worstScore % 10 = 0 => stats.worstScore <= 10 * stats.averageScore
            /\ stats.bestScore % 10 = 0 => 10 * stats.averageScore <= stats.bestScore

\* 66.67 recorded twice: the average is rounded up to 66.7, above the best
\* score, by less than 0.05
C20_Witness ==
    /\ ReturnedStats
    /\ last.stats[1].totalAttempts = 2
    /\ last.stats[1].worstScore = 6667 /\ last.stats[1].bestScore = 6667
    /\ last.stats[1].averageScore = 667

\* C21: after clearAllScores and until the next calculateAverageScore call,
\* getScoreStats returns null for every quiz, getLeaderboard returns the empty
\* list and getPerformanceTrend returns {improving: false, trend: 0}, whatever
\* was recorded before; the first score recorded after the clear is counted as
\* attempt 1.
C21_EmptyAfterClear ==
    /\ sinceClear = Some(0) =>
          /\ last.fn = "getScoreStats" => last.stats = None
          /\ last.fn = "getLeaderboard" => last.board = <<>>
          /\ last.fn = "getPerformanceTrend" =>
                (~last.trend.improving /\ last.trend.trend = 0)
    /\ (sinceClear = Some(1) /\ last.fn = "calculateAverageScore") =>
          /\ last.stats[1].totalAttempts = 1
          /\ Len(last.stats[1].recentScores) = 1
          /\ last.stats[1].bestScore = last.stats[1].worstScore

\* three scores of a quiz were stored, then the store was cleared and the
\* trend of that quiz was asked for
C21_Witness ==
    /\ sinceClear = Some(0) /\ available /\ writesOk
    /\ last.fn = "getPerformanceTrend"
    /\ Len(recorded[last.quizId]) = 3
    /\ recorded[last.quizId][1] < recorded[last.quizId][3]
=============================================================================
